---------------------------- MODULE Spec2Model ----------------------------
(***************************************************************************)
(* Model of the uplink pipeline of SmartEquipmentCabinet_LwIP-STM32Net:    *)
(* the bounded ring queue (uplink_queue.c), the retry policy               *)
(* (uplink_retry.c), the response-code scanner (uplink_codec_json.c), the  *)
(* netconn HTTP transport (uplink_transport_http_netconn.c) and the core   *)
(* state machine uplink_enqueue_json / uplink_poll /                       *)
(* uplink_get_queue_depth (uplink.c), run by several tasks over one        *)
(* context protected by one mutex.                                         *)
(*                                                                         *)
(* uint32_t values are pairs <<hi, lo>> of 16-bit halves (the value is     *)
(* hi * 65536 + lo): the checker's integers stop at 2^31 - 1, and the      *)
(* claims are about clocks and delays near 2^32.                           *)
(***************************************************************************)
EXTENDS Integers, Sequences, FiniteSets, TLC

(***************************************************************************)
(* uint32_t / uint16_t / int32_t arithmetic.                               *)
(***************************************************************************)
\* 2^16: the modulus of uint16_t, and of each half of a uint32_t.
Half == 65536

\* The uint32_t with value hi * 65536 + lo.
U32(hi, lo) == <<hi, lo>>

\* A small natural number as a uint32_t.
U32Of(n) == <<n \div Half, n % Half>>

\* Carries of the low half moved into the high half; no wrap of the high half.
WNorm(hi, lo) == <<hi + (lo \div Half), lo % Half>>

\* uint32_t wrap: the value modulo 2^32.
Wrap32(w) == <<w[1] % Half, w[2]>>

\* a + b in uint32_t (modulo 2^32).
U32Add(a, b) == Wrap32(WNorm(a[1] + b[1], a[2] + b[2]))

\* a - b in uint32_t (modulo 2^32).
U32Sub(a, b) ==
    IF a[2] >= b[2]
    THEN <<(a[1] - b[1]) % Half, a[2] - b[2]>>
    ELSE <<(a[1] - b[1] - 1) % Half, a[2] - b[2] + Half>>

\* Unsigned comparisons.
U32Lt(a, b) == (a[1] < b[1]) \/ (a[1] = b[1] /\ a[2] < b[2])
U32Le(a, b) == (a = b) \/ U32Lt(a, b)

\* a * k in uint32_t (modulo 2^32), for a small multiplier k (k <= 255).
U32MulSmall(a, k) == Wrap32(WNorm(a[1] * k, a[2] * k))

\* a / k (integer division) for a small divisor k (0 < k <= 255).
U32DivSmall(a, k) ==
    LET q1 == a[1] \div k
        r1 == a[1] % k
    IN  <<q1, (r1 * Half + a[2]) \div k>>

\* Bit i (0 = least significant) of the uint32_t a.
U32Bit(a, i) ==
    IF i >= 16 THEN (a[1] \div (2 ^ (i - 16))) % 2 ELSE (a[2] \div (2 ^ i)) % 2

\* Shift-and-subtract long division: the remainder of the top (32 - i) bits of
\* a by b, continued down to bit 0. r < b holds throughout, so 2r + 1 < 2^33
\* fits the unwrapped pair.
RECURSIVE U32ModStep(_, _, _, _)
U32ModStep(a, b, i, r) ==
    IF i < 0 THEN r
    ELSE LET r2 == WNorm(2 * r[1], 2 * r[2] + U32Bit(a, i))
         IN  IF U32Lt(r2, b)
             THEN U32ModStep(a, b, i - 1, r2)
             ELSE IF r2[2] >= b[2]
                  THEN U32ModStep(a, b, i - 1, <<r2[1] - b[1], r2[2] - b[2]>>)
                  ELSE U32ModStep(a, b, i - 1,
                                  <<r2[1] - b[1] - 1, r2[2] - b[2] + Half>>)

\* a % b in uint32_t (b # 0).
U32Mod(a, b) == U32ModStep(a, b, 31, <<0, 0>>)

\* (int32_t)x >= 0: the sign bit of x is clear.
I32NonNeg(x) == x[1] < 32768

\* INT32_MAX.
INT32_MAX == 2147483647

\* The budget test with < in place of <=.
uplink_retry_is_attempt_allowed_strict(policy, next_attempt) ==
    IF policy.max_attempts = 0 THEN 1
    ELSE IF next_attempt < policy.max_attempts THEN 1 ELSE 0

(***************************************************************************)
(* Retry policy (uplink_retry.c).  A policy is a record                    *)
(* [base_delay_ms, max_delay_ms : uint32_t, max_attempts : uint16_t,       *)
(*  jitter_pct : uint8_t].                                                 *)
(***************************************************************************)
\* uplink_retry_is_attempt_allowed: 1 = the attempt may be made.
uplink_retry_is_attempt_allowed(policy, next_attempt) ==
    IF policy.max_attempts = 0
    THEN 1
    ELSE IF next_attempt <= policy.max_attempts THEN 1 ELSE 0

\* The doubling loop of uplink_retry_calc_delay_ms, from loop index i on.
RECURSIVE calc_delay_loop(_, _, _, _)
calc_delay_loop(policy, attempt, i, delay) ==
    IF i >= attempt THEN delay
    ELSE IF U32Le(policy.max_delay_ms, delay) THEN policy.max_delay_ms
    ELSE IF U32Lt(U32DivSmall(policy.max_delay_ms, 2), delay)
         THEN calc_delay_loop(policy, attempt, i + 1, policy.max_delay_ms)
         ELSE calc_delay_loop(policy, attempt, i + 1, U32MulSmall(delay, 2))

\* A doubling that is capped at 2^32 - 1 only, not at max_delay_ms.
calc_delay_exp_uncapped(policy, attempt) ==
    calc_delay_loop([policy EXCEPT !.max_delay_ms = <<65535, 65535>>],
                    IF attempt = 0 THEN 1 ELSE attempt, 1,
                    policy.base_delay_ms)

\* The exponential delay before jitter: base * 2^(attempt-1) capped at max.
calc_delay_exp(policy, attempt) ==
    calc_delay_loop(policy, IF attempt = 0 THEN 1 ELSE attempt, 1,
                    policy.base_delay_ms)

\* The jitter amplitude: (delay * jitter_pct) / 100 in uint32_t, capped at delay.
calc_delay_jitter(policy, delay) ==
    LET j == U32DivSmall(U32MulSmall(delay, policy.jitter_pct), 100)
    IN  IF U32Lt(delay, j) THEN delay ELSE j

\* uplink_retry_calc_delay_ms.
uplink_retry_calc_delay_ms(policy, attempt, rand_u32) ==
    LET delay  == calc_delay_exp(policy, attempt)
        jitter == calc_delay_jitter(policy, delay)
    IN  IF policy.jitter_pct = 0 THEN delay
        ELSE IF jitter = <<0, 0>> THEN delay
        ELSE LET range  == U32Add(U32MulSmall(jitter, 2), <<0, 1>>)
                 offset == IF range = <<0, 0>> THEN <<0, 0>>
                           ELSE U32Mod(rand_u32, range)
                 result == U32Add(U32Sub(delay, jitter), offset)
             IN  IF U32Lt(policy.max_delay_ms, result)
                 THEN policy.max_delay_ms
                 ELSE result

(***************************************************************************)
(* Due test of the core (uplink.c).                                        *)
(***************************************************************************)
\* A due test that finds every message due.
uplink_time_is_due_always(now, due) == 1

\* uplink_time_is_due: (int32_t)(now - due) >= 0.
uplink_time_is_due(now, due) ==
    IF I32NonNeg(U32Sub(now, due)) THEN 1 ELSE 0

(***************************************************************************)
(* Return codes (uplink_err_t) and compile-time sizes (uplink_types.h).    *)
(***************************************************************************)
UPLINK_OK == 0
UPLINK_ERR_INVALID_ARG == 1
UPLINK_ERR_NOT_INIT == 2
UPLINK_ERR_QUEUE_FULL == 3
UPLINK_ERR_QUEUE_EMPTY == 4
UPLINK_ERR_BUFFER_TOO_SMALL == 5
UPLINK_ERR_UNSUPPORTED == 6
UPLINK_ERR_TRANSPORT == 7
UPLINK_ERR_CODEC == 8
UPLINK_ERR_INTERNAL == 9

UPLINK_MAX_TYPE_LEN == 32
UPLINK_MAX_PAYLOAD_LEN == 256
UPLINK_MAX_EVENT_JSON_LEN == 512
UPLINK_MAX_HTTP_BODY_LEN == 512
UPLINK_QUEUE_MAX_LEN == 8

\* "No code field in the body": the sentinel value of ack.app_code.
UPLINK_APP_CODE_UNKNOWN == INT32_MAX

(***************************************************************************)
(* Bounded ring queue (uplink_queue.c).  A message is a record             *)
(* [message_id, created_ms, type, payload_json, attempt, next_retry_ms];   *)
(* a queue is [items, capacity, head, tail, count], items indexed from 0.  *)
(***************************************************************************)
\* A message slot after memset(.., 0, ..).
ZeroMsg ==
    [message_id |-> <<0, 0>>, created_ms |-> <<0, 0>>, type |-> "",
     payload_json |-> "", attempt |-> 0, next_retry_ms |-> <<0, 0>>]

\* uplink_queue_init: cleared slots, capacity forced into 1..UPLINK_QUEUE_MAX_LEN.
uplink_queue_init(capacity) ==
    [items    |-> [i \in 0..(UPLINK_QUEUE_MAX_LEN - 1) |-> ZeroMsg],
     capacity |-> IF capacity = 0 THEN 1
                  ELSE IF capacity > UPLINK_QUEUE_MAX_LEN
                       THEN UPLINK_QUEUE_MAX_LEN
                       ELSE capacity,
     head |-> 0, tail |-> 0, count |-> 0]

uplink_queue_is_empty(q) == IF q.count = 0 THEN 1 ELSE 0

\* A fullness test that lets one message too many in.
uplink_queue_is_full_late(q) == IF q.count > q.capacity THEN 1 ELSE 0

uplink_queue_is_full(q) == IF q.count >= q.capacity THEN 1 ELSE 0

uplink_queue_size(q) == q.count

\* A push that moves tail on without wrapping it.
uplink_queue_push_nowrap(q, msg) ==
    IF uplink_queue_is_full(q) # 0
    THEN [r |-> UPLINK_ERR_QUEUE_FULL, q |-> q]
    ELSE [r |-> UPLINK_OK,
          q |-> [q EXCEPT !.items[q.tail] = msg,
                          !.tail = q.tail + 1,
                          !.count = q.count + 1]]

\* uplink_queue_push: the return code and the queue afterwards.
uplink_queue_push(q, msg) ==
    IF uplink_queue_is_full(q) # 0
    THEN [r |-> UPLINK_ERR_QUEUE_FULL, q |-> q]
    ELSE [r |-> UPLINK_OK,
          q |-> [q EXCEPT !.items[q.tail] = msg,
                          !.tail = IF q.tail + 1 >= q.capacity
                                   THEN 0 ELSE q.tail + 1,
                          !.count = q.count + 1]]

\* A peek that returns the newest message instead of the oldest.
uplink_queue_peek_newest(q) ==
    IF q.count = 0
    THEN [r |-> UPLINK_ERR_QUEUE_EMPTY, head |-> -1]
    ELSE [r |-> UPLINK_OK, head |-> (q.head + q.count - 1) % q.capacity]

\* uplink_queue_peek: the return code and the index of the slot *out_msg
\* points to (-1 stands for NULL).
uplink_queue_peek(q) ==
    IF uplink_queue_is_empty(q) # 0
    THEN [r |-> UPLINK_ERR_QUEUE_EMPTY, head |-> -1]
    ELSE [r |-> UPLINK_OK, head |-> q.head]

\* A pop that moves head on without wrapping it.
uplink_queue_pop_nowrap(q) ==
    IF uplink_queue_is_empty(q) # 0
    THEN [r |-> UPLINK_ERR_QUEUE_EMPTY, q |-> q]
    ELSE [r |-> UPLINK_OK,
          q |-> [q EXCEPT !.items[q.head] = ZeroMsg,
                          !.head = q.head + 1,
                          !.count = q.count - 1]]

\* uplink_queue_pop: the return code and the queue afterwards.
uplink_queue_pop(q) ==
    IF uplink_queue_is_empty(q) # 0
    THEN [r |-> UPLINK_ERR_QUEUE_EMPTY, q |-> q]
    ELSE [r |-> UPLINK_OK,
          q |-> [q EXCEPT !.items[q.head] = ZeroMsg,
                          !.head = IF q.head + 1 >= q.capacity
                                   THEN 0 ELSE q.head + 1,
                          !.count = q.count - 1]]

(***************************************************************************)
(* Response-code scanner (uplink_codec_json.c).  A body is a sequence of   *)
(* one-character strings; C index i is element i + 1.                      *)
(***************************************************************************)
\* The vertical tab (code 11): it has no TLA+ escape, the string holds the
\* character itself.
VT == ""

\* isspace() in the "C" locale: space and the codes 9 to 13.
IsSpace(c) == c \in {" ", "\t", "\n", VT, "\f", "\r"}

DigitChars == <<"0", "1", "2", "3", "4", "5", "6", "7", "8", "9">>

IsDigit(c) == \E d \in 1..10 : DigitChars[d] = c

\* body[pos] - '0' for a digit character.
DigitVal(c) == (CHOOSE d \in 1..10 : DigitChars[d] = c) - 1

\* int32_t <-> the uint32_t with the same bits.
I32ToU32(v) == <<(v \div Half) % Half, v % Half>>
U32ToI32(w) == IF w[1] >= 32768 THEN (w[1] - Half) * Half + w[2]
               ELSE w[1] * Half + w[2]

\* The smallest element of a non-empty set of integers.
MinOf(S) == CHOOSE x \in S : \A y \in S : x <= y

\* The scan for the key: the C index just after the first "code" (quotes
\* included), or -1 when the six characters occur nowhere.
parse_key_pos(body, body_len) ==
    LET hits == {i \in 0..(body_len - 6) :
                    /\ body[i + 1] = "\""
                    /\ body[i + 2] = "c"
                    /\ body[i + 3] = "o"
                    /\ body[i + 4] = "d"
                    /\ body[i + 5] = "e"
                    /\ body[i + 6] = "\""}
    IN  IF hits = {} THEN -1 ELSE MinOf(hits) + 6

\* while (pos < body_len && isspace(body[pos])) pos++;
parse_skip_space(body, body_len, pos) ==
    MinOf({p \in pos..(body_len - 1) : ~IsSpace(body[p + 1])} \cup {body_len})

\* (value * 10) + digit in int32_t.  ovf: the exact result is not an
\* int32_t (signed overflow, undefined in C); v is then the two's-complement
\* wrap of it.
parse_mul_add(value, digit) ==
    LET w == U32Add(U32MulSmall(I32ToU32(value), 10), <<0, digit>>)
        exact_fits == /\ value >= -214748364
                      /\ value <= 214748364
                      /\ ~(value = 214748364 /\ digit > 7)
    IN  [v |-> U32ToI32(w), ovf |-> ~exact_fits]

\* A digit loop that reports the digit 0 whatever follows.
parse_digits_lenient(body, body_len, pos, value, has_digit, ovf) ==
    [value |-> 0, has_digit |-> 1, ovf |-> FALSE]

\* The digit loop from C index pos on: the value read, whether a digit was
\* seen, and whether a signed overflow happened on the way.
RECURSIVE parse_digits(_, _, _, _, _, _)
parse_digits(body, body_len, pos, value, has_digit, ovf) ==
    IF pos < body_len /\ IsDigit(body[pos + 1])
    THEN IF value > INT32_MAX \div 10
         THEN parse_digits(body, body_len, pos + 1, INT32_MAX, 1, ovf)
         ELSE LET n == parse_mul_add(value, DigitVal(body[pos + 1]))
              IN  parse_digits(body, body_len, pos + 1, n.v, 1, ovf \/ n.ovf)
    ELSE [value |-> value, has_digit |-> has_digit, ovf |-> ovf]

\* (int32_t)(sign * value), with the wrap of -INT32_MIN.
parse_apply_sign(sign, value) ==
    IF sign = 1 THEN value
    ELSE IF value = -INT32_MAX - 1 THEN value ELSE 0 - value

\* uplink_codec_json_parse_app_code: the values *out_code may hold on return
\* (the return code is always UPLINK_OK for a non-NULL body).  One value,
\* except after a signed overflow in the digit loop or in sign * value: that
\* is undefined behaviour, and the build may wrap or act as if saturated.
uplink_codec_json_parse_app_code(body, body_len) ==
    IF body_len = 0 THEN {UPLINK_APP_CODE_UNKNOWN}
    ELSE LET key == parse_key_pos(body, body_len)
         IN  IF key = -1 THEN {UPLINK_APP_CODE_UNKNOWN}
             ELSE LET colon == parse_skip_space(body, body_len, key)
                  IN  IF colon >= body_len \/ body[colon + 1] # ":"
                      THEN {UPLINK_APP_CODE_UNKNOWN}
                      ELSE LET start == parse_skip_space(body, body_len, colon + 1)
                           IN  IF start >= body_len
                               THEN {UPLINK_APP_CODE_UNKNOWN}
                               ELSE LET neg  == body[start + 1] = "-"
                                        sign == IF neg THEN -1 ELSE 1
                                        d    == parse_digits(body, body_len,
                                                  IF neg THEN start + 1 ELSE start,
                                                  0, 0, FALSE)
                                        ovf  == d.ovf \/ (neg /\ d.value = -INT32_MAX - 1)
                                    IN  IF d.has_digit = 0
                                        THEN {UPLINK_APP_CODE_UNKNOWN}
                                        ELSE IF ovf
                                             THEN {parse_apply_sign(sign, d.value),
                                                   IF neg THEN -INT32_MAX - 1
                                                   ELSE INT32_MAX}
                                             ELSE {parse_apply_sign(sign, d.value)}

(***************************************************************************)
(* Reference transport (uplink_transport_http_netconn.c).  The peer's      *)
(* behaviour during one exchange is a record net = [early, frags]: early   *)
(* names the step that fails before any byte is received ("none" when the  *)
(* request is sent), frags is the response as the sequence of fragments    *)
(* netconn_recv / netbuf_next deliver, each a sequence of characters.      *)
(***************************************************************************)
\* The printable ASCII characters in code order: 32 (space) to 91, and 97
\* to 126 (the codes between, backslash to backquote, are used in no stream
\* of the model).
AsciiLow ==
    <<" ", "!", "\"", "#", "$", "%", "&", "'", "(", ")", "*", "+", ",", "-",
      ".", "/", "0", "1", "2", "3", "4", "5", "6", "7", "8", "9", ":", ";",
      "<", "=", ">", "?", "@", "A", "B", "C", "D", "E", "F", "G", "H", "I",
      "J", "K", "L", "M", "N", "O", "P", "Q", "R", "S", "T", "U", "V", "W",
      "X", "Y", "Z", "[">>

AsciiHigh ==
    <<"a", "b", "c", "d", "e", "f", "g", "h", "i", "j", "k", "l", "m", "n",
      "o", "p", "q", "r", "s", "t", "u", "v", "w", "x", "y", "z", "{", "|",
      "}", "~">>

\* (uint8_t)ch.
ByteOf(ch) ==
    IF ch = "\r" THEN 13
    ELSE IF ch = "\n" THEN 10
    ELSE IF ch = "\t" THEN 9
    ELSE IF ch = "\f" THEN 12
    ELSE IF ch = VT THEN 11
    ELSE IF \E i \in 1..Len(AsciiLow) : AsciiLow[i] = ch
         THEN 31 + (CHOOSE i \in 1..Len(AsciiLow) : AsciiLow[i] = ch)
         ELSE 96 + (CHOOSE i \in 1..Len(AsciiHigh) : AsciiHigh[i] = ch)

\* marker = (marker << 8) | (uint8_t)ch, in uint32_t.
marker_shift(marker, ch) ==
    <<((marker[1] % 256) * 256) + (marker[2] \div 256),
      ((marker[2] % 256) * 256) + ByteOf(ch)>>

\* 0x0D0A0D0A: CR LF CR LF.
MARKER_CRLFCRLF == <<3338, 3338>>

\* uplink_http_parse_status: the three digits after the first space of the
\* header, 0 when they are not there.
uplink_http_parse_status(header, header_len) ==
    IF header_len < 12 THEN 0
    ELSE LET spaces == {i \in 0..(header_len - 1) : header[i + 1] = " "}
         IN  IF spaces = {} THEN 0
             ELSE LET space == MinOf(spaces)
                  IN  IF space + 4 > header_len THEN 0
                      ELSE IF ~(/\ IsDigit(header[space + 2])
                                /\ IsDigit(header[space + 3])
                                /\ IsDigit(header[space + 4]))
                           THEN 0
                           ELSE (DigitVal(header[space + 2]) * 100)
                                + (DigitVal(header[space + 3]) * 10)
                                + DigitVal(header[space + 4])

\* The receive loop's variables before the first byte.
RecvInit ==
    [header_buf |-> <<>>, header_done |-> 0, marker |-> <<0, 0>>,
     http_status |-> 0, body |-> <<>>, body_truncated |-> 0]

\* A per-byte loop that drops the bytes that do not fit without a mark.
recv_byte_unmarked(st, ch, response_body_buf_len) ==
    IF st.header_done = 0
    THEN LET hb == IF Len(st.header_buf) < 512 - 1
                   THEN Append(st.header_buf, ch)
                   ELSE st.header_buf
             mk == marker_shift(st.marker, ch)
         IN  IF mk = MARKER_CRLFCRLF
             THEN [st EXCEPT !.header_buf = hb, !.marker = mk,
                             !.header_done = 1,
                             !.http_status =
                                 uplink_http_parse_status(hb, Len(hb))]
             ELSE [st EXCEPT !.header_buf = hb, !.marker = mk]
    ELSE IF Len(st.body) < response_body_buf_len - 1
         THEN [st EXCEPT !.body = Append(st.body, ch)]
         ELSE st

\* The body of the per-byte loop for one received character.
recv_byte(st, ch, response_body_buf_len) ==
    IF st.header_done = 0
    THEN LET hb == IF Len(st.header_buf) < 512 - 1
                   THEN Append(st.header_buf, ch)
                   ELSE st.header_buf
             mk == marker_shift(st.marker, ch)
         IN  IF mk = MARKER_CRLFCRLF
             THEN [st EXCEPT !.header_buf = hb, !.marker = mk,
                             !.header_done = 1,
                             !.http_status =
                                 uplink_http_parse_status(hb, Len(hb))]
             ELSE [st EXCEPT !.header_buf = hb, !.marker = mk]
    ELSE IF Len(st.body) < response_body_buf_len - 1
         THEN [st EXCEPT !.body = Append(st.body, ch)]
         ELSE [st EXCEPT !.body_truncated = 1]

\* The per-byte loop over characters lo..hi of one fragment (split in halves
\* so that the evaluation stays shallow; the bytes are taken in order).
RECURSIVE recv_range(_, _, _, _, _)
recv_range(st, data, lo, hi, response_body_buf_len) ==
    IF lo > hi THEN st
    ELSE IF lo = hi THEN recv_byte(st, data[lo], response_body_buf_len)
    ELSE LET mid  == (lo + hi) \div 2
             left == recv_range(st, data, lo, mid, response_body_buf_len)
         IN  IF left.header_done >= 0
             THEN recv_range(left, data, mid + 1, hi, response_body_buf_len)
             ELSE left

\* A receive loop that looks for the separator inside one fragment only.
RECURSIVE recv_frags_fresh_marker(_, _, _, _)
recv_frags_fresh_marker(st, frags, k, response_body_buf_len) ==
    IF k > Len(frags) THEN st
    ELSE recv_frags_fresh_marker(
             recv_range([st EXCEPT !.marker = <<0, 0>>], frags[k], 1,
                        Len(frags[k]), response_body_buf_len),
             frags, k + 1, response_body_buf_len)

\* The receive loop over the fragments k.. of the response.
RECURSIVE recv_frags(_, _, _, _)
recv_frags(st, frags, k, response_body_buf_len) ==
    IF k > Len(frags) THEN st
    ELSE recv_frags(recv_range(st, frags[k], 1, Len(frags[k]),
                               response_body_buf_len),
                    frags, k + 1, response_body_buf_len)

\* A transport that returns after a failed connect without netconn_delete.
post_netconn_calls_leaky(net) ==
    IF net.early = "resolve" THEN <<>>
    ELSE IF net.early = "new" THEN <<"netconn_new_null">>
    ELSE IF net.early = "connect" THEN <<"netconn_new", "netconn_connect">>
    ELSE <<"netconn_new", "netconn_connect", "netconn_close",
           "netconn_delete">>

\* The netconn calls uplink_http_netconn_post_json makes on the connection,
\* in order, for the exchange net (netconn_new_null: netconn_new returned
\* NULL, no connection object exists).  One netconn_recv per fragment, and
\* the one that ends the loop.
post_netconn_calls(net) ==
    LET open == <<"netconn_new", "netconn_connect">>
        shut == <<"netconn_close", "netconn_delete">>
    IN  CASE net.early = "resolve"    -> <<>>
          [] net.early = "new"        -> <<"netconn_new_null">>
          [] net.early = "connect"    -> open \o <<"netconn_delete">>
          [] net.early = "hdr_fmt"    -> open \o shut
          [] net.early = "hdr_write"  -> open \o <<"netconn_write">> \o shut
          [] net.early = "body_write" ->
                open \o <<"netconn_write", "netconn_write">> \o shut
          [] OTHER ->
                open \o <<"netconn_write", "netconn_write">>
                     \o [k \in 1..(Len(net.frags) + 1) |-> "netconn_recv"]
                     \o shut

\* uplink_http_netconn_post_json: the return code, ack->http_status, the
\* response body buffer, *out_response_body_len and the netconn calls made.
uplink_http_netconn_post_json(net, response_body_buf_len) ==
    LET none(r) == [tr |-> r, http_status |-> 0, body |-> <<>>, body_len |-> 0,
                    netconn |-> post_netconn_calls(net)]
    IN  CASE net.early = "resolve"    -> none(UPLINK_ERR_INVALID_ARG)
          [] net.early = "new"        -> none(UPLINK_ERR_TRANSPORT)
          [] net.early = "connect"    -> none(UPLINK_ERR_TRANSPORT)
          [] net.early = "hdr_fmt"    -> none(UPLINK_ERR_BUFFER_TOO_SMALL)
          [] net.early = "hdr_write"  -> none(UPLINK_ERR_TRANSPORT)
          [] net.early = "body_write" -> none(UPLINK_ERR_TRANSPORT)
          [] OTHER ->
             LET st == recv_frags(RecvInit, net.frags, 1, response_body_buf_len)
             IN  [tr |-> IF st.header_done = 0 THEN UPLINK_ERR_TRANSPORT
                         ELSE IF st.body_truncated # 0
                              THEN UPLINK_ERR_BUFFER_TOO_SMALL
                              ELSE UPLINK_OK,
                  http_status |-> st.http_status,
                  body |-> st.body,
                  body_len |-> Len(st.body),
                  netconn |-> post_netconn_calls(net)]

(***************************************************************************)
(* Envelope builder (uplink_codec_json.c).  A const char * argument that   *)
(* may be NULL is a record [null, s].                                      *)
(***************************************************************************)
StrPtr(s) == [null |-> 0, s |-> s]
NullStr == [null |-> 1, s |-> ""]

\* What "%lu" prints for a uint32_t.
RECURSIVE DecStr(_)
DecStr(w) ==
    IF w[1] = 0 /\ w[2] < 10 THEN DigitChars[w[2] + 1]
    ELSE LET q == U32DivSmall(w, 10)
         IN  DecStr(q) \o DigitChars[U32Sub(w, U32MulSmall(q, 10))[2] + 1]

\* A builder that writes an empty payload as it is.
build_payload_verbatim(payload_json) == payload_json.s

\* payload: NULL and the empty string become {}.
build_payload(payload_json) ==
    IF payload_json.null # 0 \/ payload_json.s = "" THEN "{}"
    ELSE payload_json.s

\* What snprintf formats:
\* {"deviceId":"%s","messageId":%lu,"ts":%lu,"type":"%s","payload":%s}
build_text(device_id, message_id, ts_ms, type, payload) ==
    "{\"deviceId\":\"" \o device_id \o "\",\"messageId\":"
      \o DecStr(message_id) \o ",\"ts\":" \o DecStr(ts_ms)
      \o ",\"type\":\"" \o type \o "\",\"payload\":" \o payload \o "}"

\* uplink_codec_json_build_event: the return code, *out_written and the
\* string left in out_json (snprintf stores at most out_json_len - 1
\* characters).
uplink_codec_json_build_event(out_json_len, device_id, message_id, ts_ms, type, payload_json) ==
    IF out_json_len = 0
    THEN [r |-> UPLINK_ERR_INVALID_ARG, written |-> 0, out |-> ""]
    ELSE LET text == build_text(device_id, message_id, ts_ms, type,
                                build_payload(payload_json))
             written == Len(text)
         IN  IF written >= out_json_len
             THEN [r |-> UPLINK_ERR_BUFFER_TOO_SMALL,
                   written |-> out_json_len - 1,
                   out |-> SubSeq(text, 1, out_json_len - 1)]
             ELSE [r |-> UPLINK_OK, written |-> written, out |-> text]

\* A copy that never reports the cut.
uplink_copy_str_checked_silent(dst_size, src) == 0

\* uplink_copy_str_checked: 1 when src does not fit dst_size bytes with its
\* terminator.
uplink_copy_str_checked(dst_size, src) ==
    IF Len(src) >= dst_size THEN 1 ELSE 0

\* What uplink_copy_str_checked leaves in dst: strncpy of dst_size - 1
\* characters and the terminator.
copy_str_dst(dst_size, src) ==
    IF Len(src) > dst_size - 1 THEN SubSeq(src, 1, dst_size - 1) ELSE src

(***************************************************************************)
(* Bounds and inputs of the model.                                         *)
(***************************************************************************)
\* Message ids handed out in one behaviour.
MaxEnq == 2

\* Clock advances made in one behaviour.
MaxTicks == 3

\* The tasks calling into the one context: every task may run uplink_poll,
\* the producers also enqueue events and read the queue depth.
Tasks == {1, 2}
Producers == {1}

\* Milliseconds the clock advances in one step.
TickSteps == {1}

\* Values rand_u32() returns: with them the jitter offset takes its least
\* and its greatest value.
RandSamples == {<<0, 0>>, <<65535, 65534>>}

\* Clock values at start-up: zero, and two milliseconds before the 32-bit
\* wrap.
ClockStarts == {<<0, 0>>, <<65535, 65534>>}

UPLINK_SCHEME_HTTP == 0
UPLINK_SCHEME_HTTPS == 1

\* What uplink_config_set_defaults writes, with the given queue length and
\* retry policy in place of the default ones.
Cfg(queue_len, base, max, max_attempts, jitter_pct) ==
    [endpoint |-> [scheme |-> UPLINK_SCHEME_HTTP, host |-> "172.18.8.18",
                   port |-> 8080, path |-> "/api/uplink", use_dns |-> 0],
     device_id |-> "stm32f4",
     queue_len |-> queue_len,
     send_timeout_ms |-> 2000,
     recv_timeout_ms |-> 2000,
     retry |-> [base_delay_ms |-> base, max_delay_ms |-> max,
                max_attempts |-> max_attempts, jitter_pct |-> jitter_pct],
     tls |-> [enable |-> 0, verify_server |-> 0, sni_host |-> ""]]

\* A validation without the upper limit on queue_len.
uplink_config_validate_lax(c) ==
    IF c.endpoint.host = "" THEN UPLINK_ERR_INVALID_ARG
    ELSE IF c.endpoint.port = 0 THEN UPLINK_ERR_INVALID_ARG
    ELSE IF c.endpoint.path = "" THEN UPLINK_ERR_INVALID_ARG
    ELSE IF c.device_id = "" THEN UPLINK_ERR_INVALID_ARG
    ELSE IF c.queue_len = 0 THEN UPLINK_ERR_INVALID_ARG
    ELSE IF c.send_timeout_ms = 0 \/ c.recv_timeout_ms = 0
         THEN UPLINK_ERR_INVALID_ARG
    ELSE IF \/ c.retry.base_delay_ms = <<0, 0>>
            \/ U32Lt(c.retry.max_delay_ms, c.retry.base_delay_ms)
         THEN UPLINK_ERR_INVALID_ARG
    ELSE IF c.retry.jitter_pct > 100 THEN UPLINK_ERR_INVALID_ARG
    ELSE IF c.tls.enable # 0 /\ c.endpoint.scheme # UPLINK_SCHEME_HTTPS
         THEN UPLINK_ERR_INVALID_ARG
    ELSE UPLINK_OK

\* uplink_config_validate
uplink_config_validate(c) ==
    IF c.endpoint.host = "" THEN UPLINK_ERR_INVALID_ARG
    ELSE IF c.endpoint.port = 0 THEN UPLINK_ERR_INVALID_ARG
    ELSE IF c.endpoint.path = "" THEN UPLINK_ERR_INVALID_ARG
    ELSE IF c.device_id = "" THEN UPLINK_ERR_INVALID_ARG
    ELSE IF c.queue_len = 0 \/ c.queue_len > UPLINK_QUEUE_MAX_LEN
         THEN UPLINK_ERR_INVALID_ARG
    ELSE IF c.send_timeout_ms = 0 \/ c.recv_timeout_ms = 0
         THEN UPLINK_ERR_INVALID_ARG
    ELSE IF \/ c.retry.base_delay_ms = <<0, 0>>
            \/ U32Lt(c.retry.max_delay_ms, c.retry.base_delay_ms)
         THEN UPLINK_ERR_INVALID_ARG
    ELSE IF c.retry.jitter_pct > 100 THEN UPLINK_ERR_INVALID_ARG
    ELSE IF c.tls.enable # 0 /\ c.endpoint.scheme # UPLINK_SCHEME_HTTPS
         THEN UPLINK_ERR_INVALID_ARG
    ELSE UPLINK_OK

\* A configuration after memset(.., 0, ..).
ZeroCfg ==
    [endpoint |-> [scheme |-> 0, host |-> "", port |-> 0, path |-> "",
                   use_dns |-> 0],
     device_id |-> "",
     queue_len |-> 0,
     send_timeout_ms |-> 0,
     recv_timeout_ms |-> 0,
     retry |-> [base_delay_ms |-> <<0, 0>>, max_delay_ms |-> <<0, 0>>,
                max_attempts |-> 0, jitter_pct |-> 0],
     tls |-> [enable |-> 0, verify_server |-> 0, sni_host |-> ""]]

\* uplink_config_set_defaults: a queue of UPLINK_QUEUE_MAX_LEN slots, delays
\* from 500 ms to 10 s, ten attempts, jitter of 20 percent.
CfgDefaults == Cfg(UPLINK_QUEUE_MAX_LEN, <<0, 500>>, <<0, 10000>>, 10, 20)

\* A budget of two attempts with delays of 1 and 2 ms.
CfgBounded == Cfg(2, <<0, 1>>, <<0, 2>>, 2, 0)

\* No budget (max_attempts = 0), a queue of one slot, jitter of 50 percent
\* around delays of 2 and 4 ms.
CfgUnlimited == Cfg(1, <<0, 2>>, <<0, 4>>, 0, 50)

\* A base delay of 2^31 + 1 ms.
CfgLongDelay == Cfg(1, <<32768, 1>>, <<65535, 65535>>, 2, 0)

\* The largest budget.
CfgMaxBudget == Cfg(2, <<0, 1>>, <<0, 1>>, 65535, 0)

\* The configurations and clock values uplink_init is called with.
InitChoices ==
    { [cfg |-> CfgBounded, now |-> <<0, 0>>],
      [cfg |-> CfgUnlimited, now |-> <<65535, 65534>>],
      [cfg |-> CfgLongDelay, now |-> <<0, 0>>] }

\* Strings of 64 and of UPLINK_MAX_PAYLOAD_LEN characters.
Str64 == "0123456789abcdef0123456789abcdef0123456789abcdef0123456789abcdef"
Str256 == Str64 \o Str64 \o Str64 \o Str64

\* (type, payload_json) arguments of uplink_enqueue_json: an event that fits,
\* a type of UPLINK_MAX_TYPE_LEN characters, which does not, and a payload of
\* UPLINK_MAX_PAYLOAD_LEN characters, which does not either.
EnqInputs ==
    { [type |-> "LIGHT_ADC", payload_json |-> "{\"adc\":1234}"],
      [type |-> "ABCDEFGHIJKLMNOPQRSTUVWXYZ012345", payload_json |-> ""],
      [type |-> "RFID_EVENT", payload_json |-> Str256] }

\* Pieces of response streams.
CRLF == <<"\r", "\n">>
StatusLine(d) ==
    <<"H", "T", "T", "P", "/", "1", ".", "1", " ">> \o d \o <<" ", "O", "K">>
CodeBody(digits) ==
    <<"{", "\"", "c", "o", "d", "e", "\"", ":">> \o digits \o <<"}">>
Spaces(n) == [i \in 1..n |-> " "]

\* An exchange in which the peer answers with the three status characters d
\* and a body that carries the code literal `code` (no code field when the
\* literal is empty) followed by `pad` spaces.  The answer arrives in two
\* network buffers: the head, then the body.
Reply(d, code, pad) ==
    [early |-> "none",
     frags |-> <<StatusLine(d) \o CRLF \o CRLF,
                 (IF code = <<>> THEN <<>> ELSE CodeBody(code)) \o Spaces(pad)>>,
     d |-> d, code |-> code, pad |-> pad]

\* An exchange that ends before anything is received.
NoReply(early) ==
    [early |-> early, frags |-> <<>>, d |-> <<>>, code |-> <<>>, pad |-> 0]

\* The exchanges the peer may produce.
NetTable ==
    << Reply(<<"2", "0", "0">>, <<"0">>, 0),
       Reply(<<"2", "0", "0">>, <<"7">>, 0),
       Reply(<<"2", "9", "9">>, <<>>, 0),
       Reply(<<"3", "0", "0">>, <<"0">>, 0),
       NoReply("connect"),
       Reply(<<"2", "x", "0">>, <<"0">>, 0),
       Reply(<<"2", "0", "0">>, <<"0">>, 502),
       Reply(<<"2", "0", "0">>,
             <<"2", "1", "4", "7", "4", "8", "3", "6", "4", "7">>, 0) >>

\* What uplink_poll gets back for each exchange: the transport's outputs ...
PostResult ==
    [i \in DOMAIN NetTable |->
        uplink_http_netconn_post_json(NetTable[i], UPLINK_MAX_HTTP_BODY_LEN)]

\* ... and the codes the scanner may read from the body it was given.
ParseResult ==
    [i \in DOMAIN NetTable |->
        uplink_codec_json_parse_app_code(PostResult[i].body,
                                         PostResult[i].body_len)]

(***************************************************************************)
(* The uplink context (uplink_t) shared by the calling tasks, the platform *)
(* clock, and every task's position and locals inside the call it is       *)
(* making.                                                                 *)
(***************************************************************************)
VARIABLES
    inited,           \* u->inited
    sending,          \* u->sending
    mutex,            \* u->mutex: 0 when free, else the task holding it
    cfg,              \* u->cfg
    queue,            \* u->queue
    next_message_id,  \* u->next_message_id
    now,              \* what platform.now_ms() returns
    pc,               \* pc[t]: where task t stands
    loc,              \* loc[t]: the locals of the call task t is in
    admitted,         \* history: ids of accepted messages, in order
    calls,            \* history: calls[o] = post_json calls made for admitted[o]
    done,             \* history: ordinals of the messages taken out of the queue
    fail,             \* history: the last failed attempt written to the queue
    ticks,            \* history: clock advances so far
    caller_cfg        \* the uplink_config_t of the caller of uplink_init

vars == <<inited, sending, mutex, cfg, queue, next_message_id, now, pc, loc,
          admitted, calls, done, fail, ticks, caller_cfg>>

ctx == <<inited, sending, mutex, cfg, queue, next_message_id>>
hist == <<admitted, calls, done, fail>>

\* The locals of a task that is in no call.
NoLocals ==
    [now_ms |-> <<0, 0>>, msg |-> ZeroMsg, msg_copy |-> ZeroMsg,
     build_r |-> UPLINK_OK, event_len |-> 0, tr |-> UPLINK_OK,
     ack |-> [http_status |-> 0, app_code |-> 0], body_len |-> 0,
     success |-> 0, net |-> 0, r |-> UPLINK_OK,
     type |-> "", payload_json |-> "",
     cfg_arg |-> ZeroCfg, mutex_err |-> 0,
     policy |-> ZeroCfg.retry, attempt |-> 0, rand_u32 |-> <<0, 0>>,
     delay |-> <<0, 0>>, arg |-> 0, out_json |-> "",
     response_body |-> <<>>, netconn |-> <<>>]

NoFail == [id |-> <<0, 0>>, k |-> 0, t |-> <<0, 0>>, delay |-> <<0, 0>>,
           elapsed |-> 0]

\* The ordinal, in admission order, of the message carrying this id
\* (0 when there is none).
OrdOf(id) ==
    IF \E o \in DOMAIN admitted : admitted[o] = id
    THEN CHOOSE o \in DOMAIN admitted : admitted[o] = id
    ELSE 0

\* New messages are accepted while the next id is below this one.
MaxId == <<0, MaxEnq + 1>>

\* The state uplink_init leaves behind when it succeeds.
InitCtx(c) ==
    /\ uplink_config_validate(c) = UPLINK_OK
    /\ c.endpoint.scheme = UPLINK_SCHEME_HTTP
    /\ inited = 1
    /\ sending = 0
    /\ mutex = 0
    /\ cfg = c
    /\ caller_cfg = c
    /\ queue = uplink_queue_init(c.queue_len)
    /\ next_message_id = <<0, 1>>

InitTasks ==
    /\ pc = [t \in Tasks |-> "idle"]
    /\ loc = [t \in Tasks |-> NoLocals]
    /\ ticks = 0

Init ==
    /\ \E ic \in InitChoices :
         /\ InitCtx(ic.cfg)
         /\ now = ic.now
         /\ ic.now \in ClockStarts
    /\ InitTasks
    /\ admitted = <<>>
    /\ calls = <<>>
    /\ done = {}
    /\ fail = NoFail

\* A context that has been running with the largest attempt budget: its one
\* message has failed 65533 times, the last failure one millisecond ago.
LongRunMsg ==
    [message_id |-> <<0, 1>>, created_ms |-> <<0, 0>>, type |-> "LIGHT_ADC",
     payload_json |-> "{\"adc\":1234}", attempt |-> 65533,
     next_retry_ms |-> <<1, 0>>]

InitLongRun ==
    /\ uplink_config_validate(CfgMaxBudget) = UPLINK_OK
    /\ inited = 1
    /\ sending = 0
    /\ mutex = 0
    /\ cfg = CfgMaxBudget
    /\ caller_cfg = CfgMaxBudget
    /\ queue = uplink_queue_push(uplink_queue_init(CfgMaxBudget.queue_len),
                                 LongRunMsg).q
    /\ next_message_id = <<0, 2>>
    /\ now = <<1, 0>>
    /\ InitTasks
    /\ admitted = <<LongRunMsg.message_id>>
    /\ calls = <<65533>>
    /\ done = {}
    /\ fail = [id |-> LongRunMsg.message_id, k |-> 65533, t |-> <<0, 65535>>,
               delay |-> <<0, 1>>, elapsed |-> 1]

(***************************************************************************)
(* uplink_init                                                             *)
(***************************************************************************)
\* A context after memset(u, 0, sizeof(*u)): the queue ...
ZeroQueue == [uplink_queue_init(1) EXCEPT !.capacity = 0]

\* ... and the context as a whole, in a static object before the first
\* uplink_init.
InitBoot ==
    /\ inited = 0
    /\ sending = 0
    /\ mutex = 0
    /\ cfg = ZeroCfg
    /\ caller_cfg = ZeroCfg
    /\ queue = ZeroQueue
    /\ next_message_id = <<0, 0>>
    /\ now = <<0, 0>>
    /\ InitTasks
    /\ admitted = <<>>
    /\ calls = <<>>
    /\ done = {}
    /\ fail = NoFail

\* What sys_mutex_new returns: ERR_OK (0) or an error.
MutexErrs == {0, 1}

\* An uplink_init that marks the context initialized whatever happened.
uplink_init_inited_always(r) == 1

\* u->inited when uplink_init returns r: the flag is set on the last line
\* before return UPLINK_OK and on no other path.
uplink_init_inited(r) == IF r = UPLINK_OK THEN 1 ELSE 0

\* The return code of uplink_init for configuration c when sys_mutex_new
\* returns mutex_err.
uplink_init_result(c, mutex_err) ==
    LET vr == uplink_config_validate(c)
    IN  IF vr # UPLINK_OK THEN vr
        ELSE IF mutex_err # 0 THEN UPLINK_ERR_INTERNAL
        ELSE IF c.endpoint.scheme = UPLINK_SCHEME_HTTP THEN UPLINK_OK
        ELSE UPLINK_ERR_UNSUPPORTED

\* A task calls uplink_init(u, c, platform); a NULL c is the call with
\* CfgDefaults.
UplinkInitBegin(t, c) ==
    /\ pc[t] = "idle"
    /\ pc' = [pc EXCEPT ![t] = "init_call"]
    /\ loc' = [loc EXCEPT ![t].cfg_arg = c]
    /\ UNCHANGED <<caller_cfg, ctx, now, hist, ticks>>

\* The body of uplink_init, run while no other task is inside a call on the
\* context: clear the context, validate, copy the configuration, create the
\* mutex, set up the queue and the id counter, bind the transport, mark the
\* context initialized.  The messages of the cleared context are gone.
UplinkInitRun(t) ==
    /\ pc[t] = "init_call"
    /\ \A o \in Tasks \ {t} : pc[o] = "idle"
    /\ \E mutex_err \in MutexErrs :
         LET c == loc[t].cfg_arg
             vr == uplink_config_validate(c)
             r == uplink_init_result(c, mutex_err)
         IN  /\ sending' = 0
             /\ mutex' = 0
             /\ cfg' = IF vr # UPLINK_OK THEN ZeroCfg ELSE c
             /\ queue' = IF vr # UPLINK_OK \/ mutex_err # 0
                         THEN ZeroQueue
                         ELSE uplink_queue_init(c.queue_len)
             /\ next_message_id' = IF vr # UPLINK_OK \/ mutex_err # 0
                                   THEN <<0, 0>>
                                   ELSE <<0, 1>>
             /\ inited' = uplink_init_inited(r)
             /\ loc' = [loc EXCEPT ![t].r = r, ![t].mutex_err = mutex_err]
    /\ pc' = [pc EXCEPT ![t] = "init_ret"]
    /\ admitted' = <<>>
    /\ calls' = <<>>
    /\ done' = {}
    /\ fail' = NoFail
    /\ UNCHANGED <<caller_cfg, now, ticks>>

\* uplink_init returns loc[t].r to its caller.
UplinkInitReturn(t) ==
    /\ pc[t] = "init_ret"
    /\ pc' = [pc EXCEPT ![t] = "idle"]
    /\ loc' = [loc EXCEPT ![t] = NoLocals]
    /\ UNCHANGED <<caller_cfg, ctx, now, hist, ticks>>

\* A context that refers to the caller's structure instead of holding a
\* copy of it.
uplink_cfg_after_caller_write_shared(core_cfg, caller_now) == caller_now

\* u->cfg after the caller has written caller_now into the structure it had
\* passed to uplink_init: u->cfg = *cfg copied the structure by value, and
\* no member of it is a pointer, so the context keeps what it has.
uplink_cfg_after_caller_write(core_cfg, caller_now) == core_cfg

\* The caller of uplink_init writes c into its configuration structure
\* (before a call of uplink_init, or at any time after one).
CallerWrite(t, c) ==
    /\ pc[t] = "idle"
    /\ caller_cfg # c
    /\ caller_cfg' = c
    /\ cfg' = uplink_cfg_after_caller_write(cfg, c)
    /\ UNCHANGED <<inited, sending, mutex, queue, next_message_id, now, pc,
                   loc, hist, ticks>>

\* The caller passes its structure to uplink_init.
UplinkInitOfCaller(t) == UplinkInitBegin(t, caller_cfg)

(***************************************************************************)
(* uplink_enqueue_json                                                     *)
(***************************************************************************)
\* Entry up to sys_mutex_lock: read the clock, fill the message on the
\* stack, refuse strings that do not fit.
EnqBeginIn(t, from, inputs, max_id) ==
    /\ pc[t] = from
    /\ U32Lt(next_message_id, max_id)
    /\ \E in \in inputs :
         IF inited = 0
         THEN /\ loc' = [loc EXCEPT ![t].r = UPLINK_ERR_NOT_INIT,
                           ![t].type = in.type,
                           ![t].payload_json = in.payload_json]
              /\ pc' = [pc EXCEPT ![t] = "enq_ret"]
         ELSE IF \/ uplink_copy_str_checked(UPLINK_MAX_TYPE_LEN, in.type) # 0
                 \/ uplink_copy_str_checked(UPLINK_MAX_PAYLOAD_LEN,
                                            in.payload_json) # 0
         THEN /\ loc' = [loc EXCEPT ![t].r = UPLINK_ERR_BUFFER_TOO_SMALL,
                           ![t].type = in.type,
                           ![t].payload_json = in.payload_json]
              /\ pc' = [pc EXCEPT ![t] = "enq_ret"]
         ELSE /\ loc' = [loc EXCEPT ![t].now_ms = now,
                           ![t].type = in.type,
                           ![t].payload_json = in.payload_json,
                           ![t].msg = [message_id |-> next_message_id,
                                       created_ms |-> now,
                                       type |-> copy_str_dst(
                                           UPLINK_MAX_TYPE_LEN, in.type),
                                       payload_json |-> copy_str_dst(
                                           UPLINK_MAX_PAYLOAD_LEN,
                                           in.payload_json),
                                       attempt |-> 0,
                                       next_retry_ms |-> now]]
              /\ pc' = [pc EXCEPT ![t] = "enq_lock"]
    /\ UNCHANGED <<caller_cfg, ctx, now, hist, ticks>>

\* uplink_enqueue_json called by an idle task with one of the event inputs.
EnqBegin(t) == EnqBeginIn(t, "idle", EnqInputs, MaxId)

\* sys_mutex_lock returns.
EnqLock(t) ==
    /\ pc[t] = "enq_lock"
    /\ mutex = 0
    /\ mutex' = t
    /\ pc' = [pc EXCEPT ![t] = "enq_cs"]
    /\ UNCHANGED <<caller_cfg, inited, sending, cfg, queue, next_message_id, now, loc,
                   hist, ticks>>

\* An enqueue that keeps the id it read before taking the mutex.
enq_take_id_stale(stack_id, counter) == stack_id

\* msg.message_id = u->next_message_id++, under the mutex: the id the message
\* gets, whatever id was put in the stack copy before the lock.
enq_take_id(stack_id, counter) == counter

\* Under the mutex: take an id, push, unlock.
EnqCs(t) ==
    /\ pc[t] = "enq_cs"
    /\ LET msg == [loc[t].msg EXCEPT
                      !.message_id = enq_take_id(loc[t].msg.message_id,
                                                 next_message_id)]
           p == uplink_queue_push(queue, msg)
       IN  /\ next_message_id' = U32Add(next_message_id, <<0, 1>>)
           /\ queue' = p.q
           /\ loc' = [loc EXCEPT ![t].r = p.r, ![t].msg = msg]
           /\ IF p.r = UPLINK_OK
              THEN /\ admitted' = Append(admitted, msg.message_id)
                   /\ calls' = Append(calls, 0)
              ELSE UNCHANGED <<admitted, calls>>
    /\ mutex' = 0
    /\ pc' = [pc EXCEPT ![t] = "enq_ret"]
    /\ UNCHANGED <<caller_cfg, inited, sending, cfg, now, done, fail, ticks>>

\* uplink_enqueue_json returns loc[t].r to its caller.
EnqReturn(t) ==
    /\ pc[t] = "enq_ret"
    /\ pc' = [pc EXCEPT ![t] = "idle"]
    /\ loc' = [loc EXCEPT ![t] = NoLocals]
    /\ UNCHANGED <<caller_cfg, ctx, now, hist, ticks>>

(***************************************************************************)
(* uplink_poll                                                             *)
(***************************************************************************)
\* Entry: read the clock.
PollBegin(t) ==
    /\ pc[t] = "idle"
    /\ IF inited = 0
       THEN UNCHANGED <<pc, loc>>
       ELSE /\ loc' = [loc EXCEPT ![t].now_ms = now]
            /\ pc' = [pc EXCEPT ![t] = "poll_lock"]
    /\ UNCHANGED <<caller_cfg, ctx, now, hist, ticks>>

\* sys_mutex_lock returns (first critical section).
PollLock(t) ==
    /\ pc[t] = "poll_lock"
    /\ mutex = 0
    /\ mutex' = t
    /\ pc' = [pc EXCEPT ![t] = "poll_cs1"]
    /\ UNCHANGED <<caller_cfg, inited, sending, cfg, queue, next_message_id, now, loc,
                   hist, ticks>>

\* The return of uplink_poll: unlock, locals gone.
PollReturn(t) ==
    /\ mutex' = 0
    /\ pc' = [pc EXCEPT ![t] = "idle"]
    /\ loc' = [loc EXCEPT ![t] = NoLocals]

\* A test of u->sending that never sees it set.
poll_is_sending_never(s) == FALSE

\* The test of u->sending at the top of the first critical section.
poll_is_sending(s) == s # 0

\* A send that keeps the mutex.
poll_unlock_forgotten(holder) == holder

\* sys_mutex_unlock before the envelope is built: what the mutex holds after.
poll_unlock_to_send(holder) == 0

\* First critical section: decide whether to send the head now.
PollCs1(t) ==
    /\ pc[t] = "poll_cs1"
    /\ LET pk == uplink_queue_peek(queue)
           head == queue.items[pk.head]
           next_attempt == (head.attempt + 1) % Half
       IN  IF poll_is_sending(sending)
           THEN /\ PollReturn(t)
                /\ UNCHANGED <<sending, queue, done>>
           ELSE IF pk.r # UPLINK_OK \/ pk.head = -1
           THEN /\ PollReturn(t)
                /\ UNCHANGED <<sending, queue, done>>
           ELSE IF uplink_time_is_due(loc[t].now_ms, head.next_retry_ms) = 0
           THEN /\ PollReturn(t)
                /\ UNCHANGED <<sending, queue, done>>
           ELSE IF uplink_retry_is_attempt_allowed(cfg.retry, next_attempt) = 0
           THEN /\ queue' = uplink_queue_pop(queue).q
                /\ done' = done \cup {OrdOf(head.message_id)}
                /\ PollReturn(t)
                /\ UNCHANGED sending
           ELSE /\ queue' = [queue EXCEPT
                               !.items[pk.head].attempt = next_attempt]
                /\ loc' = [loc EXCEPT ![t].msg_copy =
                               [head EXCEPT !.attempt = next_attempt]]
                /\ sending' = 1
                /\ mutex' = poll_unlock_to_send(mutex)
                /\ pc' = [pc EXCEPT ![t] = "poll_build"]
                /\ UNCHANGED done
    /\ UNCHANGED <<caller_cfg, inited, cfg, next_message_id, now, admitted, calls,
                   fail, ticks>>

\* Outside the mutex: build the envelope in u->event_json, an array of
\* event_json_size characters; on success post_json is entered, on failure
\* the mutex is taken again.
PollBuildIn(t, event_json_size) ==
    /\ pc[t] = "poll_build"
    /\ LET m == loc[t].msg_copy
           b == uplink_codec_json_build_event(event_json_size,
                    cfg.device_id, m.message_id, m.created_ms, m.type,
                    StrPtr(m.payload_json))
       IN  IF b.r # UPLINK_OK
           THEN /\ mutex = 0
                /\ mutex' = t
                /\ loc' = [loc EXCEPT ![t].build_r = b.r]
                /\ pc' = [pc EXCEPT ![t] = "poll_cs2"]
                /\ UNCHANGED calls
           ELSE /\ loc' = [loc EXCEPT ![t].event_len = b.written]
                /\ pc' = [pc EXCEPT ![t] = "poll_post"]
                /\ calls' = [calls EXCEPT ![OrdOf(m.message_id)] = @ + 1]
                /\ UNCHANGED mutex
    /\ UNCHANGED <<caller_cfg, inited, sending, cfg, queue, next_message_id, now,
                   admitted, done, fail, ticks>>

\* The build with the event buffer of UPLINK_MAX_EVENT_JSON_LEN characters.
PollBuild(t) == PollBuildIn(t, UPLINK_MAX_EVENT_JSON_LEN)

\* post_json returns; the body is scanned for the code, the outcome is
\* evaluated and the mutex is taken again.
PollPost(t) ==
    /\ pc[t] = "poll_post"
    /\ mutex = 0
    /\ mutex' = t
    /\ \E i \in DOMAIN NetTable : \E code \in ParseResult[i] :
         LET tr == PostResult[i].tr
             st == PostResult[i].http_status
             http_status == IF tr # UPLINK_OK
                            THEN (IF st = 0 THEN 0 ELSE st)
                            ELSE st
             http_ok == IF http_status >= 200 /\ http_status < 300
                        THEN 1 ELSE 0
             app_ok == IF code = 0 \/ code = UPLINK_APP_CODE_UNKNOWN
                       THEN 1 ELSE 0
             success == IF http_ok # 0 /\ app_ok # 0 THEN 1 ELSE 0
         IN  loc' = [loc EXCEPT
                       ![t].tr = tr,
                       ![t].ack = [http_status |-> http_status,
                                   app_code |-> code],
                       ![t].body_len = PostResult[i].body_len,
                       ![t].success = success,
                       ![t].net = i]
    /\ pc' = [pc EXCEPT ![t] = "poll_cs2"]
    /\ UNCHANGED <<caller_cfg, inited, sending, cfg, queue, next_message_id, now,
                   hist, ticks>>

\* A Poll that clears the flag only after a success.
poll_sending_after_failure_kept(success) == IF success # 0 THEN 0 ELSE 1

\* u->sending = 0U at the top of the second critical section, on the codec
\* failure path and after the transport call alike, whatever the outcome.
poll_sending_after(success) == 0

\* Second critical section: clear sending; if the head is still the message
\* sent, take it out on success, else write its next retry time.
PollCs2(t) ==
    /\ pc[t] = "poll_cs2"
    /\ sending' = poll_sending_after(IF loc[t].build_r = UPLINK_OK
                                     THEN loc[t].success ELSE 0)
    /\ LET m == loc[t].msg_copy
           pk == uplink_queue_peek(queue)
           same == /\ pk.r = UPLINK_OK
                   /\ pk.head # -1
                   /\ queue.items[pk.head].message_id = m.message_id
       IN  IF ~same
           THEN UNCHANGED <<queue, done, fail>>
           ELSE IF loc[t].build_r = UPLINK_OK /\ loc[t].success # 0
           THEN /\ queue' = uplink_queue_pop(queue).q
                /\ done' = done \cup {OrdOf(m.message_id)}
                /\ UNCHANGED fail
           ELSE \E rand_u32 \in RandSamples :
                  LET delay == uplink_retry_calc_delay_ms(cfg.retry, m.attempt,
                                                          rand_u32)
                  IN  /\ queue' = [queue EXCEPT
                             !.items[pk.head].next_retry_ms =
                                 U32Add(now, delay)]
                      /\ fail' = [id |-> m.message_id, k |-> m.attempt,
                                  t |-> now, delay |-> delay, elapsed |-> 0]
                      /\ UNCHANGED done
    /\ PollReturn(t)
    /\ UNCHANGED <<caller_cfg, inited, cfg, next_message_id, now, admitted, calls,
                   ticks>>

(***************************************************************************)
(* uplink_get_queue_depth                                                  *)
(***************************************************************************)
\* Entry and sys_mutex_lock.
DepthLock(t) ==
    /\ pc[t] = "idle"
    /\ IF inited = 0
       THEN /\ loc' = [loc EXCEPT ![t].r = 0]
            /\ pc' = [pc EXCEPT ![t] = "depth_ret"]
            /\ UNCHANGED mutex
       ELSE /\ mutex = 0
            /\ mutex' = t
            /\ pc' = [pc EXCEPT ![t] = "depth_cs"]
            /\ UNCHANGED loc
    /\ UNCHANGED <<caller_cfg, inited, sending, cfg, queue, next_message_id, now, hist,
                   ticks>>

\* Read the size, unlock.
DepthCs(t) ==
    /\ pc[t] = "depth_cs"
    /\ loc' = [loc EXCEPT ![t].r = uplink_queue_size(queue)]
    /\ mutex' = 0
    /\ pc' = [pc EXCEPT ![t] = "depth_ret"]
    /\ UNCHANGED <<caller_cfg, inited, sending, cfg, queue, next_message_id, now, hist,
                   ticks>>

\* uplink_get_queue_depth returns loc[t].r to its caller.
DepthReturn(t) ==
    /\ pc[t] = "depth_ret"
    /\ pc' = [pc EXCEPT ![t] = "idle"]
    /\ loc' = [loc EXCEPT ![t] = NoLocals]
    /\ UNCHANGED <<caller_cfg, ctx, now, hist, ticks>>

(***************************************************************************)
(* The platform clock                                                      *)
(***************************************************************************)
Tick(d) ==
    /\ ticks < MaxTicks
    /\ ticks' = ticks + 1
    /\ now' = U32Add(now, <<0, d>>)
    /\ fail' = IF fail = NoFail THEN fail
               ELSE [fail EXCEPT !.elapsed = @ + d]
    /\ UNCHANGED <<caller_cfg, ctx, pc, loc, admitted, calls, done>>

Next ==
    \/ \E t \in Producers : EnqBegin(t)
    \/ \E t \in Producers : EnqLock(t)
    \/ \E t \in Producers : EnqCs(t)
    \/ \E t \in Producers : EnqReturn(t)
    \/ \E t \in Tasks : PollBegin(t)
    \/ \E t \in Tasks : PollLock(t)
    \/ \E t \in Tasks : PollCs1(t)
    \/ \E t \in Tasks : PollBuild(t)
    \/ \E t \in Tasks : PollPost(t)
    \/ \E t \in Tasks : PollCs2(t)
    \/ \E t \in Producers : DepthLock(t)
    \/ \E t \in Producers : DepthCs(t)
    \/ \E t \in Producers : DepthReturn(t)
    \/ \E d \in TickSteps : Tick(d)

Spec == Init /\ [][Next]_vars

SpecLongRun == InitLongRun /\ [][Next]_vars

\* Configurations uplink_init is called with on a running system: the
\* defaults, the defaults with no queue, the defaults over the secure scheme.
InitArgs ==
    { CfgDefaults,
      [CfgDefaults EXCEPT !.queue_len = 0],
      [CfgDefaults EXCEPT !.endpoint.scheme = UPLINK_SCHEME_HTTPS] }

\* The context from before its first uplink_init on: uplink_init may fail,
\* and may be called again.
NextInit ==
    \/ \E t \in Producers : \E c \in InitArgs : UplinkInitBegin(t, c)
    \/ \E t \in Producers : UplinkInitRun(t)
    \/ \E t \in Producers : UplinkInitReturn(t)
    \/ Next

SpecInit == InitBoot /\ [][NextInit]_vars

(***************************************************************************)
(* The queue module on its own: a caller pushes, peeks and pops on a queue *)
(* it has set up with uplink_queue_init.                                   *)
(***************************************************************************)
\* Messages pushed in one behaviour.
MaxQueuePush == 10

\* The capacity argument of uplink_queue_init: below, inside and above
\* 1..UPLINK_QUEUE_MAX_LEN.
QueueCaps == {0, 1, 2, 3, UPLINK_QUEUE_MAX_LEN, UPLINK_QUEUE_MAX_LEN + 1}

\* The positions of the queue's caller: the call it made last.
QueueLabels == {"idle", "q_push", "q_peek", "q_pop"}

InitQueue ==
    /\ inited = 0
    /\ sending = 0
    /\ mutex = 0
    /\ cfg = ZeroCfg
    /\ caller_cfg = ZeroCfg
    /\ \E capacity \in QueueCaps : queue = uplink_queue_init(capacity)
    /\ next_message_id = <<0, 1>>
    /\ now = <<0, 0>>
    /\ InitTasks
    /\ admitted = <<>>
    /\ calls = <<>>
    /\ done = {}
    /\ fail = NoFail

\* uplink_queue_push of a message carrying the next id.
QueuePush(t) ==
    /\ pc[t] \in QueueLabels
    /\ U32Lt(next_message_id, <<0, MaxQueuePush + 1>>)
    /\ LET msg == [ZeroMsg EXCEPT !.message_id = next_message_id]
           p == uplink_queue_push(queue, msg)
       IN  /\ queue' = p.q
           /\ loc' = [loc EXCEPT ![t] = [NoLocals EXCEPT !.r = p.r,
                                                         !.msg = msg]]
           /\ admitted' = IF p.r = UPLINK_OK
                          THEN Append(admitted, msg.message_id)
                          ELSE admitted
    /\ next_message_id' = U32Add(next_message_id, <<0, 1>>)
    /\ pc' = [pc EXCEPT ![t] = "q_push"]
    /\ UNCHANGED <<caller_cfg, inited, sending, mutex, cfg, now, calls, done, fail, ticks>>

\* uplink_queue_peek: loc[t].msg is the message *out_msg points to (ZeroMsg
\* stands for the NULL it is set to on an empty queue).
QueuePeek(t) ==
    /\ pc[t] \in QueueLabels
    /\ LET pk == uplink_queue_peek(queue)
       IN  loc' = [loc EXCEPT ![t] =
                      [NoLocals EXCEPT !.r = pk.r,
                                       !.msg = IF pk.head = -1 THEN ZeroMsg
                                               ELSE queue.items[pk.head]]]
    /\ pc' = [pc EXCEPT ![t] = "q_peek"]
    /\ UNCHANGED <<caller_cfg, ctx, now, hist, ticks>>

\* uplink_queue_pop.
QueuePop(t) ==
    /\ pc[t] \in QueueLabels
    /\ LET pp == uplink_queue_pop(queue)
       IN  /\ queue' = pp.q
           /\ loc' = [loc EXCEPT ![t] = [NoLocals EXCEPT !.r = pp.r]]
           /\ done' = IF pp.r = UPLINK_OK
                      THEN done \cup {OrdOf(queue.items[queue.head].message_id)}
                      ELSE done
    /\ pc' = [pc EXCEPT ![t] = "q_pop"]
    /\ UNCHANGED <<caller_cfg, inited, sending, mutex, cfg, next_message_id, now,
                   admitted, calls, fail, ticks>>

NextQueue ==
    \/ \E t \in Producers : QueuePush(t)
    \/ \E t \in Producers : QueuePeek(t)
    \/ \E t \in Producers : QueuePop(t)

SpecQueue == InitQueue /\ [][NextQueue]_vars

(***************************************************************************)
(* The retry module on its own: a caller computes the delay for a policy,  *)
(* an attempt number and a random number.                                  *)
(***************************************************************************)
\* (base_delay_ms, max_delay_ms) pairs validation accepts: small delays, the
\* defaults, and delays up to 2^32 - 1 (42949673 is the least delay whose
\* hundredfold does not fit 32 bits).
RetryDelays ==
    { [base |-> <<0, 1>>, max |-> <<0, 1>>],
      [base |-> <<0, 1>>, max |-> <<0, 10>>],
      [base |-> <<0, 3>>, max |-> <<0, 100>>],
      [base |-> <<0, 500>>, max |-> <<0, 10000>>],
      [base |-> <<0, 500>>, max |-> <<65535, 65535>>],
      [base |-> <<655, 23593>>, max |-> <<65535, 65535>>],
      [base |-> <<32767, 65535>>, max |-> <<65535, 65535>>],
      [base |-> <<32768, 0>>, max |-> <<65535, 65535>>],
      [base |-> <<45776, 24064>>, max |-> <<61035, 10240>>],
      [base |-> <<65535, 65535>>, max |-> <<65535, 65535>>] }

RetryJitters == {0, 1, 20, 50, 100}

RetryPolicies ==
    { [base_delay_ms |-> dl.base, max_delay_ms |-> dl.max, max_attempts |-> 0,
       jitter_pct |-> j] : dl \in RetryDelays, j \in RetryJitters }

\* Attempt numbers: the first ones, those around 32 doublings, the last
\* 16-bit ones, and 0.
RetryAttempts == {0, 1, 2, 3, 4, 5, 6, 8, 16, 31, 32, 33, 34, 65534, 65535}

\* Random numbers: the ends and the middle of the 32-bit range, and 85899344
\* (twice the hundredth of 2^32 - 1).
RetryRands ==
    {<<0, 0>>, <<0, 1>>, <<1310, 47184>>, <<32768, 0>>, <<65535, 65535>>}

\* A task about to call uplink_retry_calc_delay_ms on one of the inputs.
InitRetry ==
    /\ inited = 0
    /\ sending = 0
    /\ mutex = 0
    /\ cfg = ZeroCfg
    /\ caller_cfg = ZeroCfg
    /\ queue = ZeroQueue
    /\ next_message_id = <<0, 0>>
    /\ now = <<0, 0>>
    /\ ticks = 0
    /\ \E policy \in RetryPolicies, attempt \in RetryAttempts,
          rand_u32 \in RetryRands :
         /\ pc = [t \in Tasks |-> IF t \in Producers THEN "retry_call"
                                  ELSE "idle"]
         /\ loc = [t \in Tasks |->
                     IF t \in Producers
                     THEN [NoLocals EXCEPT !.policy = policy,
                                           !.attempt = attempt,
                                           !.rand_u32 = rand_u32]
                     ELSE NoLocals]
    /\ admitted = <<>>
    /\ calls = <<>>
    /\ done = {}
    /\ fail = NoFail

\* The call runs: loc[t].delay is its return value.
RetryRun(t) ==
    /\ pc[t] = "retry_call"
    /\ loc' = [loc EXCEPT ![t].delay =
                   uplink_retry_calc_delay_ms(loc[t].policy, loc[t].attempt,
                                              loc[t].rand_u32)]
    /\ pc' = [pc EXCEPT ![t] = "retry_ret"]
    /\ UNCHANGED <<caller_cfg, ctx, now, hist, ticks>>

\* The call returns to its caller.
RetryReturn(t) ==
    /\ pc[t] = "retry_ret"
    /\ pc' = [pc EXCEPT ![t] = "idle"]
    /\ loc' = [loc EXCEPT ![t] = NoLocals]
    /\ UNCHANGED <<caller_cfg, ctx, now, hist, ticks>>

NextRetry ==
    \/ \E t \in Producers : RetryRun(t)
    \/ \E t \in Producers : RetryReturn(t)

SpecRetry == InitRetry /\ [][NextRetry]_vars

\* Every task is a producer as well: uplink_enqueue_json is called from
\* several tasks at once.
NextProducers ==
    \/ \E t \in Tasks \ Producers : EnqBegin(t)
    \/ \E t \in Tasks \ Producers : EnqLock(t)
    \/ \E t \in Tasks \ Producers : EnqCs(t)
    \/ \E t \in Tasks \ Producers : EnqReturn(t)
    \/ Next

\* The context after uplink_init(CfgBounded), a queue of two slots.
InitProducers ==
    /\ InitCtx(CfgBounded)
    /\ now = <<0, 0>>
    /\ InitTasks
    /\ admitted = <<>>
    /\ calls = <<>>
    /\ done = {}
    /\ fail = NoFail

SpecProducers == InitProducers /\ [][NextProducers]_vars

\* Configurations for uplink_init alone: every field validation looks at
\* takes values on both sides of its rule, in every combination.
ConfigDelays ==
    { [base |-> <<0, 0>>, max |-> <<0, 5>>],
      [base |-> <<0, 500>>, max |-> <<0, 499>>],
      [base |-> <<0, 500>>, max |-> <<0, 500>>],
      [base |-> <<0, 500>>, max |-> <<0, 10000>>],
      [base |-> <<65535, 65535>>, max |-> <<65535, 65535>>] }

ConfigInputs ==
    { [endpoint |-> [scheme |-> sc, host |-> h, port |-> po, path |-> pa,
                     use_dns |-> 0],
       device_id |-> d,
       queue_len |-> q,
       send_timeout_ms |-> st,
       recv_timeout_ms |-> rt,
       retry |-> [base_delay_ms |-> dl.base, max_delay_ms |-> dl.max,
                  max_attempts |-> 10, jitter_pct |-> j],
       tls |-> [enable |-> te, verify_server |-> 0, sni_host |-> ""]] :
      sc \in {UPLINK_SCHEME_HTTP, UPLINK_SCHEME_HTTPS, 2},
      h \in {"", "172.18.8.18"},
      po \in {0, 8080},
      pa \in {"", "/api/uplink"},
      d \in {"", "stm32f4"},
      q \in {0, 1, UPLINK_QUEUE_MAX_LEN, UPLINK_QUEUE_MAX_LEN + 1},
      st \in {0, 2000},
      rt \in {0, 2000},
      dl \in ConfigDelays,
      j \in {0, 100, 101},
      te \in {0, 1} }

\* A zeroed context and one task about to run uplink_init on one of the
\* configurations.
InitConfig ==
    /\ inited = 0
    /\ sending = 0
    /\ mutex = 0
    /\ cfg = ZeroCfg
    /\ caller_cfg = ZeroCfg
    /\ queue = ZeroQueue
    /\ next_message_id = <<0, 0>>
    /\ now = <<0, 0>>
    /\ ticks = 0
    /\ \E c \in ConfigInputs :
         /\ pc = [t \in Tasks |-> IF t \in Producers THEN "init_call"
                                  ELSE "idle"]
         /\ loc = [t \in Tasks |-> IF t \in Producers
                                   THEN [NoLocals EXCEPT !.cfg_arg = c]
                                   ELSE NoLocals]
    /\ admitted = <<>>
    /\ calls = <<>>
    /\ done = {}
    /\ fail = NoFail

NextConfig ==
    \/ \E t \in Producers : UplinkInitRun(t)
    \/ \E t \in Producers : UplinkInitReturn(t)

SpecConfig == InitConfig /\ [][NextConfig]_vars

(***************************************************************************)
(* Vocabulary of the properties.                                           *)
(***************************************************************************)
\* The ids of the queued messages, head first.
QueueIdsOf(q) ==
    [i \in 1..q.count |-> q.items[(q.head + i - 1) % q.capacity].message_id]

InQueueOf(q, id) == \E i \in 1..q.count : QueueIdsOf(q)[i] = id

HeadOf(q) == q.items[q.head]

\* Task t is inside Transport.post_json.
InTransport(t) == pc[t] = "poll_post"

\* The tasks between setting u->sending and clearing it.
SendersOf(pcv) ==
    {t \in Tasks : pcv[t] \in {"poll_build", "poll_post", "poll_cs2"}}

\* The positions at which a task holds the mutex.
CsLabels == {"enq_cs", "depth_cs", "poll_cs1", "poll_cs2"}

\* This step is task t leaving the second critical section after a
\* Transport call.
Cs2Step(t) ==
    /\ pc[t] = "poll_cs2"
    /\ pc'[t] = "idle"
    /\ loc[t].build_r = UPLINK_OK
    /\ loc[t].net # 0

\* This step is task t leaving the first critical section without sending.
Cs1Return(t) == pc[t] = "poll_cs1" /\ pc'[t] = "idle"

\* This step takes the message with this id out of the queue.
RemovedNow(id) == InQueueOf(queue, id) /\ ~InQueueOf(queue', id)

\* This step leaves the message task t sent at the head and sets its next
\* retry time to the clock plus the delay computed for the attempt just used.
Rescheduled(t) ==
    LET m == loc[t].msg_copy
    IN  /\ queue'.count = queue.count
        /\ queue'.count > 0
        /\ HeadOf(queue').message_id = m.message_id
        /\ \E r \in RandSamples :
             HeadOf(queue').next_retry_ms =
                 U32Add(now, uplink_retry_calc_delay_ms(cfg.retry, m.attempt, r))

\* What the peer sent in an exchange: the status (0 when there was no answer
\* or the status characters are not three digits), and whether the body
\* carries a code, and whether that code is zero.
NetNoResponse(n) == n.early # "none"
NetMalformed(n) == n.early = "none" /\ \E i \in 1..3 : ~IsDigit(n.d[i])
NetTruncated(n) ==
    n.early = "none" /\ Len(n.frags[2]) > UPLINK_MAX_HTTP_BODY_LEN - 1
NetStatus(n) ==
    IF NetNoResponse(n) \/ NetMalformed(n) THEN 0
    ELSE 100 * DigitVal(n.d[1]) + 10 * DigitVal(n.d[2]) + DigitVal(n.d[3])
NetCode(n) ==
    IF n.code = <<>> THEN "none"
    ELSE IF \A i \in 1..Len(n.code) : n.code[i] \in {"0", "-"} THEN "zero"
    ELSE "nonzero"

\* The success predicate on what the peer sent.
NetSuccess(n) ==
    /\ NetStatus(n) >= 200
    /\ NetStatus(n) < 300
    /\ NetCode(n) \in {"none", "zero"}

\* The success predicate on the acknowledgement uplink_poll holds.
AckSuccess(ack) ==
    /\ ack.http_status >= 200
    /\ ack.http_status < 300
    /\ (ack.app_code = 0 \/ ack.app_code = UPLINK_APP_CODE_UNKNOWN)

\* Attempt number k is admissible under the policy.
Admissible(policy, k) == policy.max_attempts = 0 \/ k <= policy.max_attempts

(***************************************************************************)
(* C1                                                                      *)
(***************************************************************************)
\* C1: messages are handed to Transport.post_json in admission order.  While
\* a task is inside post_json with a message, no message admitted before it
\* is still queued and no message admitted after it has ever been handed to
\* the transport.
C1_FifoDelivery ==
    \A t \in Tasks :
        InTransport(t) =>
            LET o == OrdOf(loc[t].msg_copy.message_id)
            IN  /\ o # 0
                /\ \A e \in 1..(o - 1) : ~InQueueOf(queue, admitted[e])
                /\ \A l \in (o + 1)..Len(admitted) : calls[l] = 0

\* The second admitted message is in the transport after the first one was
\* retried and left the queue.
C1_Witness ==
    \E t \in Tasks :
        /\ InTransport(t)
        /\ OrdOf(loc[t].msg_copy.message_id) = 2
        /\ calls[1] >= 2

(***************************************************************************)
(* C2                                                                      *)
(***************************************************************************)
\* C2: at-least-once.  A step takes an admitted message out of the queue only
\* (a) as the end of the Poll that sent it and whose acknowledgement
\* satisfies the success predicate, or (b) as a Poll that finds the next
\* attempt number not admissible under the retry policy; with a budget the
\* message has then been handed to the transport at least once, and without
\* a budget (max_attempts = 0) only (a) happens.
C2_AtLeastOnce ==
    [][\A o \in DOMAIN admitted :
         RemovedNow(admitted[o]) =>
           /\ \/ \E t \in Tasks :
                   /\ Cs2Step(t)
                   /\ loc[t].msg_copy.message_id = admitted[o]
                   /\ AckSuccess(loc[t].ack)
              \/ /\ \E t \in Tasks : Cs1Return(t)
                 /\ ~Admissible(cfg.retry, calls[o] + 1)
           /\ cfg.retry.max_attempts > 0 => calls[o] >= 1
           /\ cfg.retry.max_attempts = 0 =>
                \E t \in Tasks :
                    /\ Cs2Step(t)
                    /\ loc[t].msg_copy.message_id = admitted[o]
                    /\ AckSuccess(loc[t].ack)
      ]_vars

\* A message has left the queue right after its last admissible attempt
\* failed: it was dropped for its budget.
C2_Witness ==
    \E o \in DOMAIN admitted :
        /\ o \in done
        /\ cfg.retry.max_attempts > 0
        /\ fail.id = admitted[o]
        /\ fail.k = cfg.retry.max_attempts
        /\ calls[o] = cfg.retry.max_attempts

(***************************************************************************)
(* C3                                                                      *)
(***************************************************************************)
\* C3: success predicate.  The Poll that made a Transport call takes the
\* message out of the queue if and only if the peer's status is in 200..299
\* and the body carries no code or the code 0; in every other case the
\* message is still the head afterwards.
C3_SuccessPredicate ==
    [][\A t \in Tasks :
         Cs2Step(t) =>
           LET id == loc[t].msg_copy.message_id
           IN  IF NetSuccess(NetTable[loc[t].net])
               THEN RemovedNow(id)
               ELSE /\ queue'.count > 0
                    /\ HeadOf(queue').message_id = id
      ]_vars

(***************************************************************************)
(* C4                                                                      *)
(***************************************************************************)
\* C4: when the body carries a code that is not 0, whatever its size, the
\* attempt fails even with a 2xx status: the message stays at the head and
\* its next retry time becomes the clock plus the computed backoff.
C4_NonzeroCodeFails ==
    [][\A t \in Tasks :
         (Cs2Step(t) /\ NetCode(NetTable[loc[t].net]) = "nonzero")
             => Rescheduled(t)
      ]_vars

(***************************************************************************)
(* C5                                                                      *)
(***************************************************************************)
\* C5: after a Transport call that ended without an answer, with a malformed
\* status line or with a body cut to the receive buffer, the message stays
\* at the head and its next retry time is rescheduled.
C5_TransportFailureRetries ==
    [][\A t \in Tasks :
         (/\ Cs2Step(t)
          /\ LET n == NetTable[loc[t].net]
             IN  NetNoResponse(n) \/ NetMalformed(n) \/ NetTruncated(n))
             => Rescheduled(t)
      ]_vars

(***************************************************************************)
(* C6                                                                      *)
(***************************************************************************)
\* C6: attempt budget.  With max_attempts = N > 0 no message is handed to
\* Transport.post_json more than N times.
C6_AttemptBudget ==
    cfg.retry.max_attempts > 0 =>
        \A o \in DOMAIN calls : calls[o] <= cfg.retry.max_attempts

(***************************************************************************)
(* C7                                                                      *)
(***************************************************************************)
\* C7: a bounded budget never stalls the queue.  With max_attempts = N > 0,
\* a Poll that finds no attempt in progress and the head due after N
\* Transport calls takes the head out of the queue, so that a message whose
\* attempts all fail is gone after N of them.
C7_BudgetDrainsQueue ==
    [][\A t \in Tasks :
         (/\ pc[t] = "poll_cs1"
          /\ pc'[t] # "poll_cs1"
          /\ sending = 0
          /\ queue.count > 0
          /\ cfg.retry.max_attempts > 0
          /\ calls[OrdOf(HeadOf(queue).message_id)] >= cfg.retry.max_attempts
          /\ uplink_time_is_due(loc[t].now_ms, HeadOf(queue).next_retry_ms) = 1)
             => RemovedNow(HeadOf(queue).message_id)
      ]_vars

(***************************************************************************)
(* C8                                                                      *)
(***************************************************************************)
\* C8: the mutex is never held across the envelope build or the Transport
\* call.  A task that is building or inside post_json does not hold the
\* mutex, and whoever holds it meanwhile is another task inside one of the
\* bookkeeping sections, which end without waiting for the call.
C8_NoLockAcrossTransport ==
    \A t \in Tasks :
        pc[t] \in {"poll_build", "poll_post"} =>
            /\ mutex # t
            /\ mutex # 0 => (mutex \in Tasks /\ pc[mutex] \in CsLabels)

\* While one task is inside post_json another one holds the mutex to enqueue.
C8_Witness ==
    \E t \in Tasks, e \in Tasks :
        /\ InTransport(t)
        /\ e # t
        /\ mutex = e
        /\ pc[e] = "enq_cs"

(***************************************************************************)
(* C9                                                                      *)
(***************************************************************************)
\* C9: at most one task is between setting sending and clearing it, sending
\* is set exactly while there is one, and a Poll that finds sending set
\* returns leaving the queue (the head's attempt count and retry time with
\* it), sending and the transport calls as they were.
C9_SinglePoller ==
    [][/\ Cardinality(SendersOf(pc')) <= 1
       /\ (sending' = 1) <=> (SendersOf(pc') # {})
       /\ \A t \in Tasks :
            (pc[t] = "poll_cs1" /\ pc'[t] # "poll_cs1" /\ sending # 0) =>
                /\ pc'[t] = "idle"
                /\ queue' = queue
                /\ sending' = sending
                /\ calls' = calls
      ]_vars

\* A Poll stands in the first critical section while another task is inside
\* post_json.
C9_Witness ==
    \E t \in Tasks, p \in Tasks :
        /\ InTransport(t)
        /\ pc[p] = "poll_cs1"
        /\ sending = 1
        /\ queue.count > 0
        /\ uplink_time_is_due(loc[p].now_ms, HeadOf(queue).next_retry_ms) = 1

(***************************************************************************)
(* C10                                                                     *)
(***************************************************************************)
\* C10: backoff is honoured.  After attempt k of a message failed and the
\* failure was recorded at clock time t, the message's next retry time is
\* t + uplink_retry_calc_delay_ms(policy, k, random), and while a task is
\* inside a further Transport call for that message at least that delay has
\* passed since t.
C10_BackoffHonoured ==
    /\ (fail # NoFail /\ queue.count > 0
        /\ HeadOf(queue).message_id = fail.id) =>
          \E r \in RandSamples :
              HeadOf(queue).next_retry_ms =
                  U32Add(fail.t, uplink_retry_calc_delay_ms(cfg.retry, fail.k, r))
    /\ \A t \in Tasks :
          (InTransport(t) /\ fail # NoFail
           /\ loc[t].msg_copy.message_id = fail.id) =>
              U32Le(fail.delay, U32Of(fail.elapsed))

(***************************************************************************)
(* C11                                                                     *)
(***************************************************************************)
\* This step is task t leaving the critical section of uplink_enqueue_json.
EnqCsStep(t) == pc[t] = "enq_cs" /\ pc'[t] = "enq_ret"

\* C11: an uplink_enqueue_json that finds queue_len messages in the queue
\* returns UPLINK_ERR_QUEUE_FULL and leaves the queue as it was, so the queue
\* never holds more than queue_len messages and uplink_get_queue_depth never
\* returns more than queue_len.
C11_FullQueueRejects ==
    /\ [](uplink_queue_size(queue) <= cfg.queue_len)
    /\ [](\A t \in Tasks : pc[t] = "depth_ret" => loc[t].r <= cfg.queue_len)
    /\ [][\A t \in Tasks :
            (EnqCsStep(t) /\ uplink_queue_size(queue) >= cfg.queue_len) =>
                /\ loc'[t].r = UPLINK_ERR_QUEUE_FULL
                /\ queue' = queue
         ]_vars

\* An enqueue has just been refused on a queue holding queue_len messages.
C11_Witness ==
    \E t \in Tasks :
        /\ pc[t] = "enq_ret"
        /\ loc[t].r = UPLINK_ERR_QUEUE_FULL
        /\ uplink_queue_size(queue) = cfg.queue_len

(***************************************************************************)
(* C12                                                                     *)
(***************************************************************************)
\* The string does not fit a buffer of dst_size bytes.
TooLong(dst_size, src) == Len(src) >= dst_size

\* The (type, payload_json) pairs of the queued messages, head first.
QueueTextsOf(q) ==
    [i \in 1..q.count |->
        LET m == q.items[(q.head + i - 1) % q.capacity]
        IN  [type |-> m.type, payload_json |-> m.payload_json]]

\* C12: an uplink_enqueue_json whose type or payload does not fit its buffer
\* returns UPLINK_ERR_BUFFER_TOO_SMALL and the call leaves the queue as it
\* was; every queued message carries, whole, a type and payload that were
\* passed to uplink_enqueue_json and that fit.
C12_OversizeRejected ==
    /\ [](\A t \in Tasks :
            (/\ pc[t] = "enq_ret"
             /\ inited # 0
             /\ \/ TooLong(UPLINK_MAX_TYPE_LEN, loc[t].type)
                \/ TooLong(UPLINK_MAX_PAYLOAD_LEN, loc[t].payload_json))
                => loc[t].r = UPLINK_ERR_BUFFER_TOO_SMALL)
    /\ [](\A i \in 1..queue.count :
            /\ QueueTextsOf(queue)[i] \in EnqInputs
            /\ ~TooLong(UPLINK_MAX_TYPE_LEN, QueueTextsOf(queue)[i].type)
            /\ ~TooLong(UPLINK_MAX_PAYLOAD_LEN,
                        QueueTextsOf(queue)[i].payload_json))
    /\ [][\A t \in Tasks :
            (/\ pc'[t] # pc[t]
             /\ \/ pc'[t] = "enq_ret"
                   /\ loc'[t].r = UPLINK_ERR_BUFFER_TOO_SMALL
                \/ pc[t] = "enq_ret"
                   /\ loc[t].r = UPLINK_ERR_BUFFER_TOO_SMALL)
                => queue' = queue
         ]_vars

\* A payload of UPLINK_MAX_PAYLOAD_LEN characters has just been refused while
\* the queue holds a message.
C12_Witness ==
    \E t \in Tasks :
        /\ pc[t] = "enq_ret"
        /\ loc[t].r = UPLINK_ERR_BUFFER_TOO_SMALL
        /\ TooLong(UPLINK_MAX_PAYLOAD_LEN, loc[t].payload_json)
        /\ queue.count > 0

(***************************************************************************)
(* C13                                                                     *)
(***************************************************************************)
\* The positions a task can be at without being inside uplink_poll or past
\* the inited test of the other calls.
OutsideLabels == {"idle", "init_call", "init_ret", "enq_ret", "depth_ret"}

\* C13: uplink_init fails closed.  When it returns anything but UPLINK_OK
\* the context is not initialized; while the context is not initialized
\* every uplink_enqueue_json returns UPLINK_ERR_NOT_INIT, no task gets into
\* uplink_poll's critical sections or the transport, and
\* uplink_get_queue_depth returns 0; only an uplink_init that returns
\* UPLINK_OK makes the context initialized.
C13_InitFailsClosed ==
    /\ [](\A t \in Tasks :
            (pc[t] = "init_ret" /\ loc[t].r # UPLINK_OK) => inited = 0)
    /\ [](inited = 0 =>
            \A t \in Tasks :
                /\ pc[t] \in OutsideLabels
                /\ pc[t] = "enq_ret" => loc[t].r = UPLINK_ERR_NOT_INIT
                /\ pc[t] = "depth_ret" => loc[t].r = 0)
    /\ [][/\ (inited = 0 /\ inited' = 0) => calls' = calls
          /\ (inited = 0 /\ inited' # 0) =>
                \E t \in Tasks :
                    /\ pc[t] = "init_call"
                    /\ pc'[t] = "init_ret"
                    /\ loc'[t].r = UPLINK_OK
         ]_vars

\* An uplink_init failed after it had copied the configuration (no mutex, or
\* the secure scheme), and an uplink_enqueue_json has been refused since.
C13_Witness ==
    \E t \in Tasks :
        /\ inited = 0
        /\ cfg # ZeroCfg
        /\ pc[t] = "enq_ret"
        /\ loc[t].r = UPLINK_ERR_NOT_INIT

(***************************************************************************)
(* C14                                                                     *)
(***************************************************************************)
\* The validation rules as the configuration's user reads them.
ConfigRulesHold(c) ==
    /\ c.endpoint.host # ""
    /\ c.endpoint.path # ""
    /\ c.device_id # ""
    /\ c.endpoint.port # 0
    /\ 1 <= c.queue_len
    /\ c.queue_len <= UPLINK_QUEUE_MAX_LEN
    /\ c.send_timeout_ms > 0
    /\ c.recv_timeout_ms > 0
    /\ U32Lt(<<0, 0>>, c.retry.base_delay_ms)
    /\ U32Le(c.retry.base_delay_ms, c.retry.max_delay_ms)
    /\ c.retry.jitter_pct <= 100
    /\ c.tls.enable # 0 => c.endpoint.scheme = UPLINK_SCHEME_HTTPS

\* C14: with a mutex to be had, uplink_init returns UPLINK_OK (and marks the
\* context initialized) exactly for the configurations that satisfy every
\* validation rule and use the plaintext scheme; a configuration that breaks
\* a rule gets UPLINK_ERR_INVALID_ARG, and one that satisfies them all over
\* the secure scheme gets UPLINK_ERR_UNSUPPORTED.
C14_ConfigAcceptance ==
    \A t \in Tasks :
        (pc[t] = "init_ret" /\ loc[t].mutex_err = 0) =>
            LET c == loc[t].cfg_arg
                r == loc[t].r
            IN  /\ (r = UPLINK_OK) <=>
                       /\ ConfigRulesHold(c)
                       /\ c.endpoint.scheme = UPLINK_SCHEME_HTTP
                /\ (r = UPLINK_OK) <=> (inited = 1)
                /\ ~ConfigRulesHold(c) => r = UPLINK_ERR_INVALID_ARG
                /\ (/\ ConfigRulesHold(c)
                    /\ c.endpoint.scheme = UPLINK_SCHEME_HTTPS)
                       => r = UPLINK_ERR_UNSUPPORTED

\* uplink_init has accepted a configuration on the edge of the rules: the
\* longest queue, the greatest jitter, max_delay equal to base_delay.
C14_Witness ==
    \E t \in Tasks :
        /\ pc[t] = "init_ret"
        /\ loc[t].r = UPLINK_OK
        /\ inited = 1
        /\ cfg.queue_len = UPLINK_QUEUE_MAX_LEN
        /\ cfg.retry.jitter_pct = 100
        /\ cfg.retry.base_delay_ms = cfg.retry.max_delay_ms

(***************************************************************************)
(* C15                                                                     *)
(***************************************************************************)
\* The ids of a sequence are strictly increasing.
Increasing(ids) ==
    \A i \in DOMAIN ids : \A j \in DOMAIN ids :
        i < j => U32Lt(ids[i], ids[j])

\* C15: with several tasks inside uplink_enqueue_json at once, the ids of
\* the queued messages are strictly increasing from head to tail (so no two
\* are equal), as are the ids of all messages accepted so far, and the id
\* counter only moves in the step of a task that holds the mutex in the
\* critical section of uplink_enqueue_json.
C15_UniqueIncreasingIds ==
    /\ [](Increasing(QueueIdsOf(queue)))
    /\ [](Increasing(admitted))
    /\ [][next_message_id' # next_message_id =>
            \E t \in Tasks : EnqCsStep(t) /\ mutex = t
         ]_vars

\* A producer waits for the mutex with a message it filled in before
\* another producer's message took the same id and was queued.
C15_Witness ==
    \E t \in Tasks :
        /\ pc[t] = "enq_lock"
        /\ InQueueOf(queue, loc[t].msg.message_id)
        /\ queue.count < queue.capacity

(***************************************************************************)
(* C16                                                                     *)
(***************************************************************************)
\* C16: uplink_poll absorbs every failure.  Whatever the outcome of the
\* envelope build and of the transport call, the step in which a Poll that
\* set sending returns leaves sending = 0 and the mutex free; sending is
\* never set while no task is between setting and clearing it, so a later
\* Poll is not turned away because of an earlier failure.
C16_PollClearsSending ==
    /\ [](sending # 0 => SendersOf(pc) # {})
    /\ [][\A t \in Tasks :
            (t \in SendersOf(pc) /\ pc'[t] = "idle") =>
                /\ sending' = 0
                /\ mutex' = 0
         ]_vars

\* A message whose attempt failed is inside a later Transport call.
C16_Witness ==
    \E t \in Tasks :
        /\ InTransport(t)
        /\ fail # NoFail
        /\ fail.id = loc[t].msg_copy.message_id
        /\ loc[t].msg_copy.attempt = fail.k + 1

(***************************************************************************)
(* C17                                                                     *)
(***************************************************************************)
\* The ids pushed with success and not popped yet, oldest first.
NotPopped == SubSeq(admitted, Cardinality(done) + 1, Len(admitted))

\* C17: the queue is first-in first-out, also after head and tail have gone
\* round the ring.  The queue holds the messages pushed with success and not
\* popped yet, in push order; uplink_queue_peek hands out the oldest of
\* them; the k-th successful uplink_queue_pop takes out the k-th message
\* pushed with success.
C17_QueueFifo ==
    /\ [](QueueIdsOf(queue) = NotPopped)
    /\ [](\A t \in Tasks :
            (pc[t] = "q_peek" /\ loc[t].r = UPLINK_OK) =>
                /\ NotPopped # <<>>
                /\ loc[t].msg.message_id = NotPopped[1])
    /\ [][\A t \in Tasks :
            (pc'[t] = "q_pop" /\ loc'[t].r = UPLINK_OK) =>
                /\ done = 1..Cardinality(done)
                /\ done' = 1..(Cardinality(done) + 1)
                /\ HeadOf(queue).message_id = admitted[Cardinality(done) + 1]
                /\ QueueIdsOf(queue') = Tail(QueueIdsOf(queue))
         ]_vars

\* A peek on a ring whose contents go round the end of the array: two or
\* more messages, the tail index below the head index.
C17_Witness ==
    \E t \in Tasks :
        /\ pc[t] = "q_peek"
        /\ loc[t].r = UPLINK_OK
        /\ queue.capacity >= 3
        /\ queue.count >= 2
        /\ queue.tail < queue.head
        /\ queue.tail > 0

(***************************************************************************)
(* C18                                                                     *)
(***************************************************************************)
\* C18: queue bounds.  The capacity is in 1..UPLINK_QUEUE_MAX_LEN, count is
\* at most the capacity, head and tail are below it and tail is head + count
\* modulo the capacity; a push on a full queue returns
\* UPLINK_ERR_QUEUE_FULL, a pop or a peek on an empty queue returns
\* UPLINK_ERR_QUEUE_EMPTY, and each of them leaves the queue as it was.
C18_QueueBounds ==
    /\ [](/\ queue.capacity >= 1
          /\ queue.capacity <= UPLINK_QUEUE_MAX_LEN
          /\ queue.count <= queue.capacity
          /\ queue.head < queue.capacity
          /\ queue.tail < queue.capacity
          /\ queue.tail = (queue.head + queue.count) % queue.capacity)
    /\ [][\A t \in Tasks :
            /\ (pc'[t] = "q_push" /\ queue.count = queue.capacity) =>
                   (loc'[t].r = UPLINK_ERR_QUEUE_FULL /\ queue' = queue)
            /\ (pc'[t] = "q_push" /\ queue.count < queue.capacity) =>
                   (loc'[t].r = UPLINK_OK /\ queue'.count = queue.count + 1)
            /\ (pc'[t] \in {"q_pop", "q_peek"} /\ queue.count = 0) =>
                   (loc'[t].r = UPLINK_ERR_QUEUE_EMPTY /\ queue' = queue)
         ]_vars

\* A push has been refused on a full ring of UPLINK_QUEUE_MAX_LEN slots whose
\* head is not at index 0.
C18_Witness ==
    \E t \in Tasks :
        /\ pc[t] = "q_push"
        /\ loc[t].r = UPLINK_ERR_QUEUE_FULL
        /\ queue.capacity = UPLINK_QUEUE_MAX_LEN
        /\ queue.count = queue.capacity
        /\ queue.head > 0

(***************************************************************************)
(* C19                                                                     *)
(***************************************************************************)
\* C19: backoff monotonicity.  For a validated policy without jitter the
\* delay computed for an attempt number >= 1 is at most max_delay_ms, is the
\* same for every random number, and is not above the delay computed for any
\* greater attempt number, up to the last 16-bit one.
C19_BackoffMonotone ==
    \A t \in Tasks :
        (/\ pc[t] = "retry_ret"
         /\ loc[t].policy.jitter_pct = 0
         /\ loc[t].attempt >= 1) =>
            /\ U32Le(loc[t].delay, loc[t].policy.max_delay_ms)
            /\ \A r \in RetryRands :
                 uplink_retry_calc_delay_ms(loc[t].policy, loc[t].attempt, r)
                     = loc[t].delay
            /\ \A a \in RetryAttempts :
                 a >= loc[t].attempt =>
                     U32Le(loc[t].delay,
                           uplink_retry_calc_delay_ms(loc[t].policy, a,
                                                      loc[t].rand_u32))

\* The delay of the last 16-bit attempt number has been computed for a
\* policy whose base delay cannot be doubled in 32 bits: it is max_delay_ms.
C19_Witness ==
    \E t \in Tasks :
        /\ pc[t] = "retry_ret"
        /\ loc[t].policy.jitter_pct = 0
        /\ loc[t].attempt = 65535
        /\ loc[t].policy.base_delay_ms = <<32768, 0>>
        /\ loc[t].delay = loc[t].policy.max_delay_ms

(***************************************************************************)
(* C20                                                                     *)
(***************************************************************************)
\* delay * jitter_pct / 100 without any 32-bit wrap (jitter_pct <= 100, so
\* the quotient is a uint32_t).
ExactJitter(delay, jitter_pct) ==
    U32DivSmall(WNorm(delay[1] * jitter_pct, delay[2] * jitter_pct), 100)

\* a + b without the 32-bit wrap: the high half may pass 65535.
WideAdd(a, b) == WNorm(a[1] + b[1], a[2] + b[2])

\* C20: backoff jitter bound.  For every validated policy, attempt number
\* and random number the delay returned lies between delay - jitter and the
\* smaller of delay + jitter and max_delay_ms, where delay is the
\* exponential delay before jitter and jitter = delay * jitter_pct / 100.
C20_JitterBound ==
    \A t \in Tasks :
        pc[t] = "retry_ret" =>
            LET policy == loc[t].policy
                delay  == calc_delay_exp(policy, loc[t].attempt)
                jitter == ExactJitter(delay, policy.jitter_pct)
                lower  == U32Sub(delay, jitter)
                upper  == WideAdd(delay, jitter)
            IN  /\ U32Le(lower, loc[t].delay)
                /\ U32Le(loc[t].delay, upper)
                /\ U32Le(loc[t].delay, policy.max_delay_ms)

(***************************************************************************)
(* uplink_retry_is_attempt_allowed as a function of its arguments: a task  *)
(* calls it once with a policy and the number of the next attempt.         *)
(***************************************************************************)
\* max_attempts values: unlimited (0), small budgets, the default, and the
\* last 16-bit ones.
AllowedBudgets == {0, 1, 2, 3, 10, 65534, 65535}

\* next_attempt values: 0, numbers around each budget, the last 16-bit ones.
AllowedAttempts == {0, 1, 2, 3, 4, 9, 10, 11, 65533, 65534, 65535}

\* A task about to call uplink_retry_is_attempt_allowed on one of the inputs.
InitAllowed ==
    /\ inited = 0
    /\ sending = 0
    /\ mutex = 0
    /\ cfg = ZeroCfg
    /\ caller_cfg = ZeroCfg
    /\ queue = ZeroQueue
    /\ next_message_id = <<0, 0>>
    /\ now = <<0, 0>>
    /\ ticks = 0
    /\ \E max_attempts \in AllowedBudgets, next_attempt \in AllowedAttempts :
         /\ pc = [t \in Tasks |-> IF t \in Producers THEN "allowed_call"
                                  ELSE "idle"]
         /\ loc = [t \in Tasks |->
                     IF t \in Producers
                     THEN [NoLocals EXCEPT
                             !.policy = [CfgDefaults.retry EXCEPT
                                           !.max_attempts = max_attempts],
                             !.attempt = next_attempt]
                     ELSE NoLocals]
    /\ admitted = <<>>
    /\ calls = <<>>
    /\ done = {}
    /\ fail = NoFail

\* The call runs: loc[t].r is its return value.
AllowedRun(t) ==
    /\ pc[t] = "allowed_call"
    /\ loc' = [loc EXCEPT ![t].r =
                   uplink_retry_is_attempt_allowed(loc[t].policy,
                                                   loc[t].attempt)]
    /\ pc' = [pc EXCEPT ![t] = "allowed_ret"]
    /\ UNCHANGED <<caller_cfg, ctx, now, hist, ticks>>

\* The call returns to its caller.
AllowedReturn(t) ==
    /\ pc[t] = "allowed_ret"
    /\ pc' = [pc EXCEPT ![t] = "idle"]
    /\ loc' = [loc EXCEPT ![t] = NoLocals]
    /\ UNCHANGED <<caller_cfg, ctx, now, hist, ticks>>

NextAllowed ==
    \/ \E t \in Producers : AllowedRun(t)
    \/ \E t \in Producers : AllowedReturn(t)

SpecAllowed == InitAllowed /\ [][NextAllowed]_vars

(***************************************************************************)
(* C21  Attempt admission.  For every policy and every next_attempt,       *)
(* uplink_retry_is_attempt_allowed returns false exactly when              *)
(* max_attempts > 0 and next_attempt > max_attempts, and true otherwise;   *)
(* with max_attempts = 0 it always returns true.                           *)
(***************************************************************************)
C21_AttemptAdmission ==
    \A t \in Tasks :
        pc[t] = "allowed_ret" =>
            /\ loc[t].r \in {0, 1}
            /\ loc[t].r = 0 <=>
                   /\ loc[t].policy.max_attempts > 0
                   /\ loc[t].attempt > loc[t].policy.max_attempts
            /\ loc[t].policy.max_attempts = 0 => loc[t].r = 1

\* A call with a budget of 3 and next_attempt 4 has returned false.
C21_Witness ==
    \E t \in Tasks :
        /\ pc[t] = "allowed_ret"
        /\ loc[t].policy.max_attempts = 3
        /\ loc[t].attempt = 4
        /\ loc[t].r = 0

(***************************************************************************)
(* uplink_codec_json_parse_app_code as a function of its arguments: a task *)
(* calls it once on a buffer and a body length.                            *)
(***************************************************************************)
\* The characters of a string, as the scanner indexes them.
Chars(s) == [i \in 1..Len(s) |-> SubSeq(s, i, i)]

\* The decimal digits of a natural number.
RECURSIVE DecDigits(_)
DecDigits(m) ==
    IF m < 10 THEN <<DigitChars[m + 1]>>
    ELSE Append(DecDigits(m \div 10), DigitChars[(m % 10) + 1])

\* The decimal literal a peer writes for the int32_t n (the last digit of a
\* negative number is split off first, so that INT32_MIN is written too).
FormatI32(n) ==
    IF n >= 0 THEN DecDigits(n)
    ELSE LET d == (10 - (n % 10)) % 10
             q == 0 - ((n + d) \div 10)
         IN  <<"-">> \o (IF q = 0 THEN <<>> ELSE DecDigits(q))
                     \o <<DigitChars[d + 1]>>

\* Codes a peer may answer: small ones, the ones around INT32_MAX / 10, and
\* the ends of the int32_t range.
RoundTripCodes ==
    {0, 1, -1, 7, -7, 9, 10, -10, 42, 99, 100, -100, 255, 404, -404, 1000,
     65535, -65536, 214748364, 214748365, -214748364, -214748365,
     2147483639, 2147483640, 2147483646, 2147483647, -2147483646,
     -2147483647, -2147483647 - 1}

\* Integer literals outside the int32_t range.
BeyondLiterals ==
    {"2147483648", "2147483649", "2147483650", "21474836480", "3000000000",
     "4294967296", "9999999999", "-2147483649", "-3000000000",
     "-9999999999"}

\* A call's arguments: the buffer, body_len (the buffer may hold more), and
\* what the caller put into it.
ParseArg(buf, body_len, kind, n) ==
    [buf |-> buf, body_len |-> body_len, kind |-> kind, n |-> n,
     is_null |-> 0]

\* The body {"code":N} with k spaces after the colon.
CodeReply(k, digits) ==
    Chars("{\"code\":") \o Spaces(k) \o digits \o Chars("}")

\* Bodies that carry "code":N for an int32_t N, with and without a space
\* after the colon.
RoundTripArgs ==
    { ParseArg(CodeReply(k, FormatI32(n)), Len(CodeReply(k, FormatI32(n))),
               "roundtrip", n) : k \in {0, 1}, n \in RoundTripCodes }

\* The body {"code":N} with every kind of white space (codes 9 to 13 and
\* the space) between the key and the colon and between the colon and N.
WhiteReply(digits) ==
    Chars("{\"code\"") \o <<VT, " ", "\t">> \o <<":">>
        \o <<"\n", VT, "\f", "\r">> \o digits \o Chars("}")

WhiteArgs ==
    { ParseArg(WhiteReply(FormatI32(n)), Len(WhiteReply(FormatI32(n))),
               "roundtrip", n) : n \in {0, 5, -9, 2147483647} }

\* Bodies that carry an integer literal outside the int32_t range; n is the
\* sign of the literal.
BeyondArgs ==
    { ParseArg(CodeReply(0, Chars(l)), Len(CodeReply(0, Chars(l))), "beyond",
               IF SubSeq(l, 1, 1) = "-" THEN -1 ELSE 1) : l \in BeyondLiterals }

\* Bodies without a code field.
NoFieldTexts ==
    {"{}", "{\"msg\":\"ok\"}", "{\"cod\":1}", "code:5", "\"code", "{\"code",
     "{\"Code\":5}", "x"}

\* Bodies whose key is not followed by a colon.
NoColonTexts ==
    {"{\"code\" 5}", "{\"code\"}", "{\"code\",5}", "{\"code\"", "{\"code\" ",
     "{\"code\"\t\r\n", "{\"code\"" \o VT, "{\"code\"" \o VT \o "5}"}

\* Bodies whose colon is not followed by digits.
NoDigitTexts ==
    {"{\"code\":}", "{\"code\":\"5\"}", "{\"code\":abc}", "{\"code\": }",
     "{\"code\":-}", "{\"code\":-x5}", "{\"code\":+5}", "{\"code\":",
     "{\"code\": ", "{\"code\":-", "{\"code\": -"}

\* Buffers that hold a complete field while body_len ends the body before
\* it, inside the key, right after the key, the colon or the minus sign.
CutArgs ==
    { ParseArg(Chars("{\"code\" : -5}"), len, "tolerance", 0) :
        len \in {0, 1, 5, 6, 7, 8, 9, 10, 11} }

\* Empty and malformed bodies; the buffer ends where the body ends.
ToleranceArgs ==
    { ParseArg(Chars(s), Len(s), "tolerance", 0) :
        s \in {""} \cup NoFieldTexts \cup NoColonTexts \cup NoDigitTexts }
    \cup CutArgs

\* JSON objects whose top-level field "code" is 5, with other fields, string
\* values and nested objects before and after it.
SurroundTexts ==
    {"{\"msg\":\"ok\",\"code\":5}", "{\"code\":5,\"msg\":\"ok\"}",
     "{\"ts\":123,\"code\":5,\"data\":{\"x\":1}}", "{ \"code\" : 5 }",
     "{\"mycode\":1,\"code\":5}", "{\"code\":5,\"msg\":\"code\"}",
     "{\"code\":5,\"data\":{\"code\":9}}", "{\"msg\":\"code\",\"code\":5}",
     "{\"data\":{\"code\":9},\"code\":5}"}

SurroundArgs ==
    { ParseArg(Chars(s), Len(s), "surround", 5) : s \in SurroundTexts }

\* body == NULL.
NullArg == [ParseArg(<<>>, 0, "null", 0) EXCEPT !.is_null = 1]

ParseArgs ==
    RoundTripArgs \cup WhiteArgs \cup BeyondArgs \cup ToleranceArgs
      \cup SurroundArgs \cup {NullArg}

\* A task about to call uplink_codec_json_parse_app_code on one of the
\* arguments.
InitCodec ==
    /\ inited = 0
    /\ sending = 0
    /\ mutex = 0
    /\ cfg = ZeroCfg
    /\ caller_cfg = ZeroCfg
    /\ queue = ZeroQueue
    /\ next_message_id = <<0, 0>>
    /\ now = <<0, 0>>
    /\ ticks = 0
    /\ \E a \in ParseArgs :
         /\ pc = [t \in Tasks |-> IF t \in Producers THEN "parse_call"
                                  ELSE "idle"]
         /\ loc = [t \in Tasks |->
                     IF t \in Producers THEN [NoLocals EXCEPT !.arg = a]
                     ELSE NoLocals]
    /\ admitted = <<>>
    /\ calls = <<>>
    /\ done = {}
    /\ fail = NoFail

\* The call runs: loc[t].r is its return value, loc[t].ack.app_code what
\* *out_code holds afterwards (untouched when body is NULL).
CodecParse(t) ==
    /\ pc[t] = "parse_call"
    /\ LET a == loc[t].arg
       IN  IF a.is_null # 0
           THEN loc' = [loc EXCEPT ![t].r = UPLINK_ERR_INVALID_ARG]
           ELSE \E code \in uplink_codec_json_parse_app_code(a.buf, a.body_len) :
                  loc' = [loc EXCEPT ![t].r = UPLINK_OK,
                                     ![t].ack.app_code = code]
    /\ pc' = [pc EXCEPT ![t] = "parse_ret"]
    /\ UNCHANGED <<caller_cfg, ctx, now, hist, ticks>>

\* The call returns to its caller.
CodecReturn(t) ==
    /\ pc[t] = "parse_ret"
    /\ pc' = [pc EXCEPT ![t] = "idle"]
    /\ loc' = [loc EXCEPT ![t] = NoLocals]
    /\ UNCHANGED <<caller_cfg, ctx, now, hist, ticks>>

NextCodec ==
    \/ \E t \in Producers : CodecParse(t)
    \/ \E t \in Producers : CodecReturn(t)

SpecCodec == InitCodec /\ [][NextCodec]_vars

(***************************************************************************)
(* C22  Status-code round trip.  For a body that carries "code":N the      *)
(* scanner recovers N for every int32_t N, negative values included, and   *)
(* for an integer literal beyond the int32_t range it returns the          *)
(* saturated bound (the largest value for a positive literal, one of the   *)
(* two most negative values for a negative literal), never a wrapped       *)
(* value.                                                                  *)
(***************************************************************************)
C22_CodeRoundTrip ==
    \A t \in Tasks :
        pc[t] = "parse_ret" =>
            /\ loc[t].arg.kind = "roundtrip" =>
                   /\ loc[t].r = UPLINK_OK
                   /\ loc[t].ack.app_code = loc[t].arg.n
            /\ loc[t].arg.kind = "beyond" =>
                   /\ loc[t].r = UPLINK_OK
                   /\ loc[t].arg.n = 1 => loc[t].ack.app_code = INT32_MAX
                   /\ loc[t].arg.n = -1 =>
                          loc[t].ack.app_code \in {-INT32_MAX - 1, -INT32_MAX}

(***************************************************************************)
(* C23  Codec tolerance.  uplink_codec_json_parse_app_code returns OK with *)
(* the result "unknown" for an empty body, for a body with no code field   *)
(* and for malformed input: the key without a colon, a colon without       *)
(* digits, a body that ends right after the key, the colon or the minus    *)
(* sign.  What the buffer holds from body_len on has no influence: the     *)
(* result is "unknown" also when a complete field continues there.         *)
(***************************************************************************)
C23_CodecTolerance ==
    \A t \in Tasks :
        (pc[t] = "parse_ret" /\ loc[t].arg.kind = "tolerance") =>
            /\ loc[t].r = UPLINK_OK
            /\ loc[t].ack.app_code = UPLINK_APP_CODE_UNKNOWN

\* A call has returned for a body that ends right after the minus sign while
\* the buffer goes on with a digit.
C23_Witness ==
    \E t \in Tasks :
        /\ pc[t] = "parse_ret"
        /\ loc[t].arg.kind = "tolerance"
        /\ loc[t].arg.body_len = 11
        /\ Len(loc[t].arg.buf) > 11
        /\ loc[t].arg.buf[11] = "-"
        /\ loc[t].arg.buf[12] = "5"
        /\ loc[t].r = UPLINK_OK
        /\ loc[t].ack.app_code = UPLINK_APP_CODE_UNKNOWN

(***************************************************************************)
(* C30  Surrounding JSON.  Whenever the body is a JSON object whose        *)
(* top-level field "code" has the integer value N, the scanner returns N,  *)
(* whichever other fields, string values or nested objects precede or      *)
(* follow the field: also after an earlier string value equal to "code"    *)
(* and after a nested object that has a "code" key of its own.             *)
(***************************************************************************)
C30_SurroundingJson ==
    \A t \in Tasks :
        (pc[t] = "parse_ret" /\ loc[t].arg.kind = "surround") =>
            /\ loc[t].r = UPLINK_OK
            /\ loc[t].ack.app_code = loc[t].arg.n

(***************************************************************************)
(* uplink_codec_json_build_event as a function of its arguments, and       *)
(* uplink_poll in a build whose event buffer is smaller than the largest   *)
(* envelope (UPLINK_MAX_EVENT_JSON_LEN can be set by the build: with the   *)
(* default of 512 every envelope of a queued message fits).                *)
(***************************************************************************)
\* sizeof(u->event_json) in the small build: an envelope with a one-digit
\* timestamp fits, one with a ten-digit timestamp does not.
EventJsonSmall == 90

\* Output buffer sizes: none, one character, sizes around the lengths of the
\* envelopes built below, and the default.
BuildSizes == {0, 1, 2, 56, 64, 65, 66, 67, 68, 69, 70, 80, 84, 85, 512}

BuildPayloads ==
    {NullStr, StrPtr(""), StrPtr("{}"), StrPtr("{\"adc\":1234}"), StrPtr("7")}

BuildIds == {<<0, 1>>, <<0, 10>>, <<65535, 65535>>}

BuildArgs ==
    { [out_json_len |-> n, device_id |-> "stm32f4", message_id |-> id,
       ts_ms |-> ts, type |-> "RFID", payload_json |-> p] :
        n \in BuildSizes, id \in BuildIds, ts \in {<<0, 0>>, <<1, 34464>>},
        p \in BuildPayloads }

\* Either a task about to call uplink_codec_json_build_event on one of the
\* arguments, or the context after uplink_init(CfgUnlimited) with the clock
\* two milliseconds before it wraps.
InitBuild ==
    \/ /\ inited = 0
       /\ sending = 0
       /\ mutex = 0
       /\ cfg = ZeroCfg
       /\ caller_cfg = ZeroCfg
       /\ queue = ZeroQueue
       /\ next_message_id = <<0, 0>>
       /\ now = <<0, 0>>
       /\ ticks = 0
       /\ \E a \in BuildArgs :
            /\ pc = [t \in Tasks |-> IF t \in Producers THEN "build_call"
                                     ELSE "idle"]
            /\ loc = [t \in Tasks |->
                        IF t \in Producers THEN [NoLocals EXCEPT !.arg = a]
                        ELSE NoLocals]
       /\ admitted = <<>>
       /\ calls = <<>>
       /\ done = {}
       /\ fail = NoFail
    \/ /\ InitCtx(CfgUnlimited)
       /\ now = <<65535, 65534>>
       /\ InitTasks
       /\ admitted = <<>>
       /\ calls = <<>>
       /\ done = {}
       /\ fail = NoFail

\* The call runs: loc[t].r is its return value, event_len is *out_written and
\* out_json the string in the output buffer.
BuildRun(t) ==
    /\ pc[t] = "build_call"
    /\ LET a == loc[t].arg
           b == uplink_codec_json_build_event(a.out_json_len, a.device_id,
                    a.message_id, a.ts_ms, a.type, a.payload_json)
       IN  loc' = [loc EXCEPT ![t].r = b.r, ![t].event_len = b.written,
                              ![t].out_json = b.out]
    /\ pc' = [pc EXCEPT ![t] = "build_ret"]
    /\ UNCHANGED <<caller_cfg, ctx, now, hist, ticks>>

\* The call returns to its caller.
BuildReturn(t) ==
    /\ pc[t] = "build_ret"
    /\ pc' = [pc EXCEPT ![t] = "idle"]
    /\ loc' = [loc EXCEPT ![t] = NoLocals]
    /\ UNCHANGED <<caller_cfg, ctx, now, hist, ticks>>

\* uplink_poll's build step in the small build.
PollBuildSmall(t) == PollBuildIn(t, EventJsonSmall)

NextBuild ==
    \/ \E t \in Producers : BuildRun(t)
    \/ \E t \in Producers : BuildReturn(t)
    \/ \E t \in Producers : EnqBegin(t)
    \/ \E t \in Producers : EnqLock(t)
    \/ \E t \in Producers : EnqCs(t)
    \/ \E t \in Producers : EnqReturn(t)
    \/ \E t \in Tasks : PollBegin(t)
    \/ \E t \in Tasks : PollLock(t)
    \/ \E t \in Tasks : PollCs1(t)
    \/ \E t \in Tasks : PollBuildSmall(t)
    \/ \E t \in Tasks : PollPost(t)
    \/ \E t \in Tasks : PollCs2(t)
    \/ \E d \in TickSteps : Tick(d)

SpecBuild == InitBuild /\ [][NextBuild]_vars

\* The number of decimal digits of a uint32_t.
Digits10(w) == 1 + Cardinality({k \in 1..9 : U32Le(U32Of(10 ^ k), w)})

\* The payload text an envelope must carry for the argument p.
PayloadOf(p) == IF p.null # 0 \/ p.s = "" THEN "{}" ELSE p.s

\* The length of the complete envelope: 55 fixed characters, the two
\* strings, the two numbers and the payload.
EnvelopeLen(device_id, message_id, ts_ms, type, p) ==
    55 + Len(device_id) + Digits10(message_id) + Digits10(ts_ms) + Len(type)
       + Len(PayloadOf(p))

\* s starts with pre and ends with post.
StartsWith(s, pre) == Len(s) >= Len(pre) /\ SubSeq(s, 1, Len(pre)) = pre
EndsWith(s, post) ==
    Len(s) >= Len(post) /\ SubSeq(s, Len(s) - Len(post) + 1, Len(s)) = post

\* uplink_poll's build step of task t, for a message whose envelope does not
\* fit the event buffer of the small build.
BuildFailsStep(t) ==
    /\ pc[t] = "poll_build"
    /\ pc'[t] # "poll_build"
    /\ EnvelopeLen(cfg.device_id, loc[t].msg_copy.message_id,
                   loc[t].msg_copy.created_ms, loc[t].msg_copy.type,
                   StrPtr(loc[t].msg_copy.payload_json)) >= EventJsonSmall

\* The calls of uplink_codec_json_build_event that have returned satisfy the
\* claim.
BuildResultOk ==
    \A t \in Tasks :
        (pc[t] = "build_ret" /\ loc[t].arg.out_json_len > 0) =>
            LET a == loc[t].arg
                len == EnvelopeLen(a.device_id, a.message_id, a.ts_ms, a.type,
                                   a.payload_json)
            IN  /\ loc[t].r = UPLINK_OK <=> len < a.out_json_len
                /\ loc[t].r # UPLINK_OK =>
                       loc[t].r = UPLINK_ERR_BUFFER_TOO_SMALL
                /\ loc[t].r = UPLINK_OK =>
                       /\ loc[t].event_len = len
                       /\ Len(loc[t].out_json) = len
                       /\ StartsWith(loc[t].out_json,
                              "{\"deviceId\":\"" \o a.device_id
                                \o "\",\"messageId\":")
                       /\ EndsWith(loc[t].out_json,
                              ",\"type\":\"" \o a.type \o "\",\"payload\":"
                                \o PayloadOf(a.payload_json) \o "}")

(***************************************************************************)
(* C24  Envelope builder.  uplink_codec_json_build_event returns OK only   *)
(* when the complete envelope {deviceId, messageId, ts, type, payload}     *)
(* fits the output buffer, and out_written is then its exact length; a     *)
(* NULL or empty payload is emitted as {}; when the envelope does not fit  *)
(* it returns BufferTooSmall, and uplink_poll then makes no Transport call *)
(* with the partial output.                                                *)
(***************************************************************************)
C24_EnvelopeBuilder ==
    /\ []BuildResultOk
    /\ [][\A t \in Tasks :
            BuildFailsStep(t) =>
                /\ pc'[t] = "poll_cs2"
                /\ loc'[t].build_r = UPLINK_ERR_BUFFER_TOO_SMALL
                /\ calls' = calls]_vars

\* A call with a NULL payload has returned OK with an envelope that ends
\* with the empty object.
C24_Witness ==
    \E t \in Tasks :
        /\ pc[t] = "build_ret"
        /\ loc[t].arg.payload_json.null = 1
        /\ loc[t].r = UPLINK_OK
        /\ EndsWith(loc[t].out_json, ",\"payload\":{}}")
        /\ loc[t].event_len + 1 = loc[t].arg.out_json_len

\* uplink_poll is at its second critical section after a build that failed,
\* and no Transport call was made for the message.
C24_PollWitness ==
    \E t \in Tasks :
        /\ pc[t] = "poll_cs2"
        /\ loc[t].build_r = UPLINK_ERR_BUFFER_TOO_SMALL
        /\ calls[OrdOf(loc[t].msg_copy.message_id)] = 0

(***************************************************************************)
(* The context together with the configuration structure of its caller:    *)
(* the caller fills the structure, passes it to uplink_init, and may write *)
(* to it again while the context is in use.                                *)
(***************************************************************************)
\* What the caller writes into its structure.
FrameArgs == {CfgBounded, CfgLongDelay}

NextFrame ==
    \/ \E t \in Producers : \E c \in FrameArgs : CallerWrite(t, c)
    \/ \E t \in Producers : UplinkInitOfCaller(t)
    \/ \E t \in Producers : UplinkInitRun(t)
    \/ \E t \in Producers : UplinkInitReturn(t)
    \/ Next

SpecFrame == InitBoot /\ [][NextFrame]_vars

\* The step is the body of uplink_init.
InitRunStep == \E t \in Tasks : pc[t] = "init_call" /\ pc'[t] = "init_ret"

(***************************************************************************)
(* C25  Configuration frame.  After a successful uplink_init the context's *)
(* copy of the configuration (endpoint, device id, timeouts, retry policy, *)
(* queue_len) is left unchanged by every step of uplink_enqueue_json,      *)
(* uplink_poll and uplink_get_queue_depth, and a later write to the        *)
(* caller's configuration structure does not change it: only another       *)
(* uplink_init does.                                                       *)
(***************************************************************************)
C25_ConfigFrame ==
    [][(inited = 1 /\ ~InitRunStep) => cfg' = cfg]_vars

\* The caller's structure has been rewritten after uplink_init, a message
\* has been delivered and another is being built, and the context still
\* holds the configuration it was initialized with.
C25_Witness ==
    /\ inited = 1
    /\ cfg = CfgBounded
    /\ caller_cfg = CfgLongDelay
    /\ done # {}
    /\ \E t \in Tasks : pc[t] = "poll_build"

(***************************************************************************)
(* uplink_http_netconn_post_json as a function of what the network does:   *)
(* a task calls it once with a response buffer of response_body_buf_len    *)
(* bytes; the peer's response stream reaches it cut into fragments.        *)
(***************************************************************************)
\* Response streams: a reply with a code, one with further header lines and
\* no body, a body that holds the separator again, malformed status lines
\* (a letter among the digits, no space, a header shorter than a status
\* line, nothing before the separator), a reply that ends inside the header,
\* and no reply.
TransportStreams ==
    { Chars("HTTP/1.1 200 OK\r\n\r\n{\"code\":0}"),
      Chars("HTTP/1.1 404 NF\r\nA: b\r\n\r\n"),
      Chars("HTTP/1.1 200 OK\r\n\r\nab\r\n\r\ncd"),
      Chars("HTTP/1.1 2x0 OK\r\n\r\n{}"),
      Chars("HTTP/1.1-200-OK\r\n\r\n{}"),
      Chars("H 200\r\n\r\n{}"),
      Chars("\r\n\r\nxy"),
      Chars("HTTP/1.1 200 OK\r\n"),
      <<>> }

\* The ways a stream reaches the receive loop: whole, cut in two or three at
\* every position, with an empty fragment between two parts, and byte by
\* byte.
Splits(s) ==
    LET n == Len(s)
    IN  {<<s>>}
        \cup {<<SubSeq(s, 1, i), SubSeq(s, i + 1, n)>> : i \in 1..(n - 1)}
        \cup {<<SubSeq(s, 1, i), <<>>, SubSeq(s, i + 1, n)>> : i \in 1..(n - 1)}
        \cup {<<SubSeq(s, 1, ij[1]), SubSeq(s, ij[1] + 1, ij[2]),
                SubSeq(s, ij[2] + 1, n)>> :
                ij \in {p \in (1..(n - 1)) \X (1..(n - 1)) : p[1] < p[2]}}
        \cup {[k \in 1..n |-> <<s[k]>>]}

\* The bytes of a sequence of fragments, in order.
RECURSIVE Flatten(_)
Flatten(frags) ==
    IF frags = <<>> THEN <<>> ELSE Head(frags) \o Flatten(Tail(frags))

\* Steps that can fail before the response is read.
EarlyFailures ==
    {"resolve", "new", "connect", "hdr_fmt", "hdr_write", "body_write"}

\* sizeof the response buffer: room for the terminator only, for three and
\* for ten characters, and UPLINK_MAX_HTTP_BODY_LEN.
ResponseBufLens == {1, 4, 11, UPLINK_MAX_HTTP_BODY_LEN}

TransportArgs ==
    { [net |-> [early |-> "none", frags |-> f], response_body_buf_len |-> n] :
        f \in UNION {Splits(s) : s \in TransportStreams},
        n \in ResponseBufLens }
    \cup { [net |-> [early |-> e, frags |-> <<>>], response_body_buf_len |-> n] :
             e \in EarlyFailures, n \in ResponseBufLens }

\* A task about to call post_json in one of the exchanges.
InitTransport ==
    /\ inited = 0
    /\ sending = 0
    /\ mutex = 0
    /\ cfg = ZeroCfg
    /\ caller_cfg = ZeroCfg
    /\ queue = ZeroQueue
    /\ next_message_id = <<0, 0>>
    /\ now = <<0, 0>>
    /\ ticks = 0
    /\ \E a \in TransportArgs :
         /\ pc = [t \in Tasks |-> IF t \in Producers THEN "post_call"
                                  ELSE "idle"]
         /\ loc = [t \in Tasks |->
                     IF t \in Producers THEN [NoLocals EXCEPT !.arg = a]
                     ELSE NoLocals]
    /\ admitted = <<>>
    /\ calls = <<>>
    /\ done = {}
    /\ fail = NoFail

\* The call runs: loc[t].tr is its return value, ack, response_body and
\* body_len its outputs, netconn the netconn calls it made.
PostRun(t) ==
    /\ pc[t] = "post_call"
    /\ LET a == loc[t].arg
           p == uplink_http_netconn_post_json(a.net, a.response_body_buf_len)
       IN  loc' = [loc EXCEPT ![t].tr = p.tr,
                              ![t].ack = [http_status |-> p.http_status,
                                          app_code |-> UPLINK_APP_CODE_UNKNOWN],
                              ![t].response_body = p.body,
                              ![t].body_len = p.body_len,
                              ![t].netconn = p.netconn]
    /\ pc' = [pc EXCEPT ![t] = "post_ret"]
    /\ UNCHANGED <<caller_cfg, ctx, now, hist, ticks>>

\* The call returns to its caller.
PostReturn(t) ==
    /\ pc[t] = "post_ret"
    /\ pc' = [pc EXCEPT ![t] = "idle"]
    /\ loc' = [loc EXCEPT ![t] = NoLocals]
    /\ UNCHANGED <<caller_cfg, ctx, now, hist, ticks>>

NextTransport ==
    \/ \E t \in Producers : PostRun(t)
    \/ \E t \in Producers : PostReturn(t)

SpecTransport == InitTransport /\ [][NextTransport]_vars

\* The index of the first CR LF CR LF in the stream s, 0 when there is none.
SeparatorAt(s) ==
    LET at == {i \in 1..(Len(s) - 3) :
                  SubSeq(s, i, i + 3) = <<"\r", "\n", "\r", "\n">>}
    IN  IF at = {} THEN 0 ELSE MinOf(at)

\* The header block of a stream that has one: up to the separator, included.
HeaderOf(s) == SubSeq(s, 1, SeparatorAt(s) + 3)

\* What follows the separator.
BodyOf(s) == SubSeq(s, SeparatorAt(s) + 4, Len(s))

\* The header h is shorter than a minimal status line, or its first line
\* holds no space followed by three decimal digits.
MalformedStatus(h) ==
    \/ Len(h) < 12
    \/ LET eol == MinOf({i \in 1..Len(h) : h[i] = "\r"})
       IN  ~\E i \in 1..(eol - 4) :
              /\ h[i] = " "
              /\ IsDigit(h[i + 1]) /\ IsDigit(h[i + 2]) /\ IsDigit(h[i + 3])

\* Task t has returned from post_json in an exchange that got as far as
\* reading the response.
PostReturned(t) == pc[t] = "post_ret" /\ loc[t].arg.net.early = "none"

\* The response stream of the exchange task t is in.
StreamOf(t) == Flatten(loc[t].arg.net.frags)

\* At most n - 1 first characters of the body b: what a buffer of n bytes
\* holds besides its terminator.
Kept(b, n) == SubSeq(b, 1, IF Len(b) < n - 1 THEN Len(b) ELSE n - 1)

(***************************************************************************)
(* C26  Truncated body.  When the response body is longer than             *)
(* response_body_buf_len - 1 bytes, uplink_http_netconn_post_json returns  *)
(* BufferTooSmall (neither OK nor the transport error), reports the HTTP   *)
(* status of the status line, and returns exactly the first                *)
(* response_body_buf_len - 1 body bytes, with room left for the            *)
(* terminator and out_response_body_len equal to that count.               *)
(***************************************************************************)
C26_TruncatedBody ==
    \A t \in Tasks :
        (/\ PostReturned(t)
         /\ SeparatorAt(StreamOf(t)) # 0
         /\ Len(BodyOf(StreamOf(t))) > loc[t].arg.response_body_buf_len - 1) =>
            LET n == loc[t].arg.response_body_buf_len
                h == HeaderOf(StreamOf(t))
            IN  /\ loc[t].tr = UPLINK_ERR_BUFFER_TOO_SMALL
                /\ loc[t].ack.http_status = uplink_http_parse_status(h, Len(h))
                /\ loc[t].response_body = SubSeq(BodyOf(StreamOf(t)), 1, n - 1)
                /\ loc[t].body_len = n - 1
                /\ Len(loc[t].response_body) + 1 <= n

\* A reply with status 200 and a body of ten characters has been received
\* into a buffer of four bytes.
C26_Witness ==
    \E t \in Tasks :
        /\ PostReturned(t)
        /\ loc[t].arg.response_body_buf_len = 4
        /\ Len(BodyOf(StreamOf(t))) = 10
        /\ loc[t].tr = UPLINK_ERR_BUFFER_TOO_SMALL
        /\ loc[t].ack.http_status = 200
        /\ loc[t].response_body = <<"{", "\"", "c">>
        /\ loc[t].body_len = 3

(***************************************************************************)
(* C27  Malformed status line.  When the response header block is complete *)
(* but its status line holds no space followed by three decimal digits, or *)
(* the header is shorter than a minimal status line,                       *)
(* uplink_http_netconn_post_json returns a transport error to its caller.  *)
(***************************************************************************)
C27_MalformedStatusLine ==
    \A t \in Tasks :
        (/\ PostReturned(t)
         /\ SeparatorAt(StreamOf(t)) # 0
         /\ MalformedStatus(HeaderOf(StreamOf(t)))) =>
            loc[t].tr = UPLINK_ERR_TRANSPORT

(***************************************************************************)
(* C28  Fragmentation independence.  For every response stream and every   *)
(* way of cutting it into fragments (inside the CR LF CR LF separator and  *)
(* inside the status line too) the call yields the HTTP status, the body   *)
(* bytes and the return code it yields when the stream arrives in one      *)
(* fragment, and the body starts right after the first CR LF CR LF.        *)
(***************************************************************************)
C28_FragmentationIndependence ==
    \A t \in Tasks :
        PostReturned(t) =>
            LET n == loc[t].arg.response_body_buf_len
                s == StreamOf(t)
                whole == uplink_http_netconn_post_json(
                             [early |-> "none", frags |-> <<s>>], n)
            IN  /\ loc[t].tr = whole.tr
                /\ loc[t].ack.http_status = whole.http_status
                /\ loc[t].response_body = whole.body
                /\ loc[t].body_len = whole.body_len
                /\ loc[t].response_body =
                       IF SeparatorAt(s) = 0 THEN <<>> ELSE Kept(BodyOf(s), n)

\* A reply has been received in three fragments, the first cut inside the
\* status code and the second inside the separator.
C28_Witness ==
    \E t \in Tasks :
        /\ PostReturned(t)
        /\ Len(loc[t].arg.net.frags) = 3
        /\ Len(loc[t].arg.net.frags[1]) = 10
        /\ Len(loc[t].arg.net.frags[1]) + Len(loc[t].arg.net.frags[2])
               = SeparatorAt(StreamOf(t)) + 1
        /\ loc[t].tr = UPLINK_OK
        /\ loc[t].ack.http_status = 200
        /\ loc[t].response_body = Chars("{\"code\":0}")

\* The number of calls named c in the sequence of netconn calls calls_made.
CountOf(calls_made, c) ==
    Cardinality({k \in 1..Len(calls_made) : calls_made[k] = c})

(***************************************************************************)
(* C29  Connection lifecycle.  Every call of uplink_http_netconn_post_json *)
(* creates at most one connection, and on every return path after the      *)
(* connection was created (connect failure, header too long, header write  *)
(* failure, body write failure, receive end, missing header terminator,    *)
(* truncated body) the connection has been deleted exactly once, as the    *)
(* last netconn call, before the function returns: no connection survives  *)
(* the call.                                                               *)
(***************************************************************************)
C29_ConnectionLifecycle ==
    \A t \in Tasks :
        pc[t] = "post_ret" =>
            LET c == loc[t].netconn
                created == CountOf(c, "netconn_new")
            IN  /\ created <= 1
                /\ CountOf(c, "netconn_delete") = created
                /\ created = 1 =>
                       /\ c[1] = "netconn_new"
                       /\ c[Len(c)] = "netconn_delete"
                /\ loc[t].arg.net.early \notin {"resolve", "new"} =>
                       created = 1

\* A call whose connect failed has returned after netconn_new,
\* netconn_connect and netconn_delete.
C29_Witness ==
    \E t \in Tasks :
        /\ pc[t] = "post_ret"
        /\ loc[t].arg.net.early = "connect"
        /\ loc[t].tr = UPLINK_ERR_TRANSPORT
        /\ loc[t].netconn = <<"netconn_new", "netconn_connect", "netconn_delete">>

(***************************************************************************)
(* C31                                                                     *)
(***************************************************************************)
\* A natural number below 2^64 as four 16-bit limbs, least significant first.
WideOf(a) == <<a[2], a[1], 0, 0>>

\* Twice a four-limb number, without any wrap below 2^64.
WideDouble(w) ==
    LET c1 == (2 * w[1]) \div Half
        c2 == (2 * w[2] + c1) \div Half
        c3 == (2 * w[3] + c2) \div Half
    IN  <<(2 * w[1]) % Half, (2 * w[2] + c1) % Half, (2 * w[3] + c2) % Half,
          2 * w[4] + c3>>

\* w * 2^k in four limbs (w < 2^32 and k <= 31, so the product is < 2^63).
RECURSIVE WideShift(_, _)
WideShift(w, k) == IF k = 0 THEN w ELSE WideShift(WideDouble(w), k - 1)

\* min(base_delay_ms * 2^(n-1), max_delay_ms) in unbounded arithmetic, n = 0
\* counted as 1.  base_delay_ms >= 1, so from 32 doublings on the product is
\* at least 2^32 and the minimum is max_delay_ms.
ExactBackoff(policy, n) ==
    LET m == IF n = 0 THEN 1 ELSE n
    IN  IF m - 1 >= 32 THEN policy.max_delay_ms
        ELSE LET p == WideShift(WideOf(policy.base_delay_ms), m - 1)
             IN  IF p[3] = 0 /\ p[4] = 0
                    /\ U32Le(<<p[2], p[1]>>, policy.max_delay_ms)
                 THEN <<p[2], p[1]>>
                 ELSE policy.max_delay_ms

\* The loop indices looked at one by one: after 32 doublings of a delay >= 1
\* every later value of the loop is max_delay_ms.
DoublingSteps == 32 + 2

\* The smaller of two numbers.
Smaller(a, b) == IF a < b THEN a ELSE b

\* C31: exact exponential backoff.  With jitter_pct = 0 and a validated
\* policy the delay returned for attempt number n is
\* min(base_delay_ms * 2^(n-1), max_delay_ms) in unbounded arithmetic (n = 0
\* counted as 1), and so is the value of delay after every iteration of the
\* doubling loop; each iteration leaves delay alone, sets it to max_delay_ms,
\* or doubles it without passing 2^32 - 1.
C31_ExactBackoff ==
    \A t \in Tasks :
        (pc[t] = "retry_ret" /\ loc[t].policy.jitter_pct = 0) =>
            LET policy == loc[t].policy
                m      == IF loc[t].attempt = 0 THEN 1 ELSE loc[t].attempt
            IN  /\ loc[t].delay = ExactBackoff(policy, loc[t].attempt)
                /\ \A k \in 1..Smaller(m, DoublingSteps) :
                     calc_delay_exp(policy, k) = ExactBackoff(policy, k)
                /\ \A k \in 1..Smaller(m - 1, DoublingSteps) :
                     LET d    == calc_delay_exp(policy, k)
                         next == calc_delay_exp(policy, k + 1)
                     IN  \/ next = policy.max_delay_ms
                         \/ next = WideAdd(d, d)

\* The 16th attempt of a policy with base delay 500 ms and no effective cap
\* has returned 500 * 2^15 = 16384000 ms, with no jitter.
C31_Witness ==
    \E t \in Tasks :
        /\ pc[t] = "retry_ret"
        /\ loc[t].policy.jitter_pct = 0
        /\ loc[t].policy.base_delay_ms = <<0, 500>>
        /\ loc[t].policy.max_delay_ms = <<65535, 65535>>
        /\ loc[t].attempt = 16
        /\ loc[t].delay = <<250, 0>>

(***************************************************************************)
(* uplink_poll in the small build (sizeof(u->event_json) = EventJsonSmall) *)
(* with the clock two milliseconds before its wrap: the envelope of a      *)
(* message created before the wrap does not fit, one created after it does.*)
(***************************************************************************)
CodecFailArgs == {CfgBounded, CfgUnlimited}

InitCodecFail ==
    /\ \E c \in CodecFailArgs : InitCtx(c)
    /\ now = <<65535, 65534>>
    /\ InitTasks
    /\ admitted = <<>>
    /\ calls = <<>>
    /\ done = {}
    /\ fail = NoFail

NextCodecFail ==
    \/ \E t \in Producers : EnqBegin(t)
    \/ \E t \in Producers : EnqLock(t)
    \/ \E t \in Producers : EnqCs(t)
    \/ \E t \in Producers : EnqReturn(t)
    \/ \E t \in Tasks : PollBegin(t)
    \/ \E t \in Tasks : PollLock(t)
    \/ \E t \in Tasks : PollCs1(t)
    \/ \E t \in Tasks : PollBuildSmall(t)
    \/ \E t \in Tasks : PollPost(t)
    \/ \E t \in Tasks : PollCs2(t)
    \/ \E d \in TickSteps : Tick(d)

SpecCodecFail == InitCodecFail /\ [][NextCodecFail]_vars

\* The envelope of the queued message m does not fit the event buffer of the
\* small build.
EnvelopeTooLong(m) ==
    EnvelopeLen(cfg.device_id, m.message_id, m.created_ms, m.type,
                StrPtr(m.payload_json)) >= EventJsonSmall

\* This step is task t entering the send of the head: the end of the first
\* critical section.
Cs1SendStep(t) == pc[t] = "poll_cs1" /\ pc'[t] = "poll_build"

\* This step is task t leaving the second critical section after the
\* envelope build failed.
Cs2CodecStep(t) ==
    /\ pc[t] = "poll_cs2"
    /\ pc'[t] = "idle"
    /\ loc[t].build_r # UPLINK_OK

\* C32: codec failure inside uplink_poll.  The Poll that sends the head
\* increments its attempt count before the build; when the build fails the
\* Poll makes no Transport call (no call is ever made for a message whose
\* envelope does not fit), and its last step clears sending, leaves the
\* message at the head with the incremented attempt count, sets its
\* next_retry_ms to now + the delay of that attempt number, frees the mutex
\* and returns.
C32_CodecFailure ==
    /\ [](\A i \in 1..queue.count :
            LET m == queue.items[(queue.head + i - 1) % queue.capacity]
            IN  EnvelopeTooLong(m) => calls[OrdOf(m.message_id)] = 0)
    /\ [][\A t \in Tasks :
            Cs1SendStep(t) =>
                /\ HeadOf(queue').message_id = HeadOf(queue).message_id
                /\ HeadOf(queue').attempt = HeadOf(queue).attempt + 1
                /\ loc'[t].msg_copy = HeadOf(queue')
         ]_vars
    /\ [][\A t \in Tasks :
            BuildFailsStep(t) => /\ calls' = calls
                                 /\ queue' = queue
                                 /\ loc'[t].msg_copy = loc[t].msg_copy
         ]_vars
    /\ [][\A t \in Tasks :
            Cs2CodecStep(t) =>
                LET m == loc[t].msg_copy
                IN  /\ calls' = calls
                    /\ sending' = 0
                    /\ mutex' = 0
                    /\ queue'.count = queue.count
                    /\ queue'.head = queue.head
                    /\ HeadOf(queue) = m
                    /\ HeadOf(queue') = [m EXCEPT !.next_retry_ms =
                                             HeadOf(queue').next_retry_ms]
                    /\ \E r \in RandSamples :
                         HeadOf(queue').next_retry_ms =
                             U32Add(now, uplink_retry_calc_delay_ms(
                                             cfg.retry, m.attempt, r))
                    /\ cfg.retry.jitter_pct = 0 =>
                         HeadOf(queue').next_retry_ms =
                             U32Add(now, ExactBackoff(cfg.retry, m.attempt))
         ]_vars

\* The second build of a message has failed and the message was rescheduled
\* by the delay of attempt 2; no Transport call was made for it.
C32_Witness ==
    /\ fail # NoFail
    /\ fail.k = 2
    /\ calls[OrdOf(fail.id)] = 0
    /\ sending = 0
    /\ queue.count > 0
    /\ HeadOf(queue).message_id = fail.id
    /\ HeadOf(queue).attempt = 2
    /\ HeadOf(queue).next_retry_ms = U32Add(fail.t, fail.delay)
    /\ \A t \in Tasks : pc[t] = "idle"

\* A message was dropped for its exhausted budget after builds that failed
\* only: no Transport call was ever made for it.
C32_BudgetWitness ==
    /\ cfg.retry.max_attempts = 2
    /\ \E o \in done : calls[o] = 0

(***************************************************************************)
(* C33                                                                     *)
(***************************************************************************)
\* The clock value `at` lies before `due` in the 32-bit circle: the signed
\* difference at - due is negative.
BeforeDue(at, due) == U32Sub(at, due)[1] >= 32768

\* Task t, in the first critical section, finds nothing due: the queue is
\* empty, or the clock value it read lies before the head's next_retry_ms.
NothingDue(t) ==
    \/ queue.count = 0
    \/ BeforeDue(loc[t].now_ms, HeadOf(queue).next_retry_ms)

\* Less than the delay written with the head's last failure has passed since
\* that failure, for a delay below 2^31 ms.
HeadWaiting ==
    /\ queue.count > 0
    /\ fail # NoFail
    /\ HeadOf(queue).message_id = fail.id
    /\ fail.delay[1] < 32768
    /\ U32Lt(U32Of(fail.elapsed), fail.delay)

\* This step belongs to the uplink_poll call of task t and leaves its first
\* critical section or comes before it.
PollEntryStep(t) ==
    /\ pc[t] \in {"idle", "poll_lock", "poll_cs1"}
    /\ pc'[t] # pc[t]
    /\ pc[t] = "idle" => pc'[t] = "poll_lock"

\* C33: uplink_poll is a no-op when nothing is due.  A Poll that finds the
\* queue empty, or the head's next_retry_ms not reached by the clock value
\* it read (in particular while less than the head's backoff delay has
\* passed), returns from its first critical section; no step of such a call
\* makes a Transport call or changes the queue (contents, attempt counts,
\* next_retry_ms), sending or next_message_id.
C33_PollNoOp ==
    [][\A t \in Tasks :
         /\ (PollEntryStep(t)
             /\ (pc[t] = "poll_cs1" => (NothingDue(t) \/ HeadWaiting))) =>
                /\ queue' = queue
                /\ sending' = sending
                /\ next_message_id' = next_message_id
                /\ calls' = calls
                /\ done' = done
         /\ (pc[t] = "poll_cs1" /\ pc'[t] # "poll_cs1"
             /\ (NothingDue(t) \/ HeadWaiting)) =>
                /\ pc'[t] = "idle"
                /\ mutex' = 0
      ]_vars

\* A Poll holds the mutex in its first critical section and finds the head,
\* whose attempt failed, not yet due.
C33_Witness ==
    \E t \in Tasks :
        /\ pc[t] = "poll_cs1"
        /\ sending = 0
        /\ queue.count > 0
        /\ BeforeDue(loc[t].now_ms, HeadOf(queue).next_retry_ms)
        /\ HeadWaiting
        /\ HeadOf(queue).attempt = 1

(***************************************************************************)
(* C34                                                                     *)
(***************************************************************************)
\* The positions of uplink_poll in the order a call passes them.
PollRank(label) ==
    CASE label = "poll_lock"  -> 1
      [] label = "poll_cs1"   -> 2
      [] label = "poll_build" -> 3
      [] label = "poll_post"  -> 4
      [] label = "poll_cs2"   -> 5
      [] OTHER                -> 0

\* The number of Transport calls made so far, over all messages.
RECURSIVE SumTo(_, _)
SumTo(f, n) == IF n = 0 THEN 0 ELSE f[n] + SumTo(f, n - 1)
CallsTotal(c) == SumTo(c, Len(c))

\* The queued messages, head first.
QueueMsgsOf(q) ==
    [i \in 1..q.count |-> q.items[(q.head + i - 1) % q.capacity]]

\* The queued messages behind the head.
BehindHead(q) == SubSeq(QueueMsgsOf(q), 2, q.count)

\* Task t enters Transport.post_json in this step.
PostStep(t) == pc[t] = "poll_build" /\ pc'[t] = "poll_post"

\* C34: one delivery per Poll.  A call of uplink_poll passes each of its
\* positions at most once, enters Transport.post_json only between the
\* build and the second critical section, hence at most once, and a step
\* takes at most one message out of the queue, always the head and always
\* as the last step of the call; the Poll that drops the head for its
\* exhausted budget returns in that step, leaving the next message and the
\* transport untouched; the Poll that calls the transport has raised the
\* head's attempt count by exactly 1, and nothing else changes an attempt
\* count.
C34_OneDeliveryPerPoll ==
    /\ [][\A t \in Tasks :
            (PollRank(pc[t]) > 0 /\ pc'[t] # pc[t]) =>
                \/ pc'[t] = "idle"
                \/ PollRank(pc'[t]) > PollRank(pc[t])
         ]_vars
    /\ [][calls' # calls =>
            /\ Len(admitted') = Len(admitted) =>
                 /\ CallsTotal(calls') = CallsTotal(calls) + 1
                 /\ \E t \in Tasks :
                      /\ PostStep(t)
                      /\ calls'[OrdOf(loc[t].msg_copy.message_id)] =
                             calls[OrdOf(loc[t].msg_copy.message_id)] + 1
            /\ Len(admitted') # Len(admitted) =>
                 CallsTotal(calls') = CallsTotal(calls)
         ]_vars
    /\ [][queue'.count < queue.count =>
            /\ queue'.count = queue.count - 1
            /\ QueueMsgsOf(queue') = BehindHead(queue)
            /\ calls' = calls
            /\ \E t \in Tasks :
                 /\ pc[t] \in {"poll_cs1", "poll_cs2"}
                 /\ pc'[t] = "idle"
         ]_vars
    /\ [][\A t \in Tasks :
            Cs1SendStep(t) =>
                /\ queue'.count = queue.count
                /\ HeadOf(queue').message_id = HeadOf(queue).message_id
                /\ HeadOf(queue').attempt = HeadOf(queue).attempt + 1
                /\ BehindHead(queue') = BehindHead(queue)
         ]_vars
    /\ [][\A t \in Tasks :
            PostStep(t) =>
                /\ queue' = queue
                /\ HeadOf(queue).message_id = loc[t].msg_copy.message_id
                /\ HeadOf(queue).attempt = loc[t].msg_copy.attempt
         ]_vars
    /\ [][(\E i \in 1..queue.count :
             \E j \in 1..queue'.count :
                /\ QueueMsgsOf(queue)[i].message_id =
                       QueueMsgsOf(queue')[j].message_id
                /\ QueueMsgsOf(queue)[i].attempt #
                       QueueMsgsOf(queue')[j].attempt) =>
            \E t \in Tasks : Cs1SendStep(t)
         ]_vars

\* A Poll has dropped the first message for its exhausted budget after two
\* Transport calls and returned; the second message is at the head, never
\* attempted.
C34_Witness ==
    /\ 1 \in done
    /\ Len(calls) = 2
    /\ calls[1] = 2
    /\ calls[2] = 0
    /\ cfg.retry.max_attempts = 2
    /\ queue.count = 1
    /\ HeadOf(queue).message_id = admitted[2]
    /\ HeadOf(queue).attempt = 0
    /\ \A t \in Tasks : pc[t] = "idle"

(***************************************************************************)
(* C35                                                                     *)
(***************************************************************************)
\* C35: timestamps agree with id order.  Of any two queued messages the one
\* with the smaller id has a created_ms that is not later (in the 32-bit
\* circle) than that of the one with the larger id, and a queued message
\* that was never attempted has next_retry_ms = created_ms.
C35_TimestampsFollowIds ==
    /\ \A i \in 1..queue.count :
         QueueMsgsOf(queue)[i].attempt = 0 =>
             QueueMsgsOf(queue)[i].next_retry_ms =
                 QueueMsgsOf(queue)[i].created_ms
    /\ \A i \in 1..queue.count : \A j \in 1..queue.count :
         U32Lt(QueueMsgsOf(queue)[i].message_id,
               QueueMsgsOf(queue)[j].message_id) =>
             ~BeforeDue(QueueMsgsOf(queue)[j].created_ms,
                        QueueMsgsOf(queue)[i].created_ms)

(***************************************************************************)
(* C36                                                                     *)
(***************************************************************************)
\* The head of the queue is the message task t holds a copy of.
HeadIsCopyOf(t) ==
    /\ queue.count > 0
    /\ uplink_queue_peek(queue).r = UPLINK_OK
    /\ HeadOf(queue).message_id = loc[t].msg_copy.message_id
    /\ HeadOf(queue).attempt = loc[t].msg_copy.attempt
    /\ HeadOf(queue).created_ms = loc[t].msg_copy.created_ms

\* C36: in-flight invariant.  Whenever sending is set, exactly one task is
\* between setting and clearing it, the queue is not empty and its head is
\* the message that task holds a copy of (same id, same attempt count),
\* whatever uplink_enqueue_json and uplink_poll calls the other tasks make;
\* so the step that ends the attempt finds the head it sent, and takes out
\* or reschedules that very message.
C36_InFlightHead ==
    /\ [](sending # 0 =>
            /\ Cardinality(SendersOf(pc)) = 1
            /\ \A t \in SendersOf(pc) : HeadIsCopyOf(t))
    /\ [][\A t \in Tasks :
            (pc[t] = "poll_cs2" /\ pc'[t] = "idle") =>
                LET id == loc[t].msg_copy.message_id
                IN  /\ sending # 0
                    /\ HeadIsCopyOf(t)
                    /\ IF loc[t].build_r = UPLINK_OK /\ loc[t].success # 0
                       THEN /\ RemovedNow(id)
                            /\ queue'.count = queue.count - 1
                       ELSE /\ Rescheduled(t)
                            /\ HeadOf(queue').attempt = loc[t].msg_copy.attempt
         ]_vars

\* A task is inside the Transport call with the head while the other task,
\* which enqueued a second message meanwhile, is in the first critical
\* section of its own uplink_poll.
C36_Witness ==
    \E t \in Tasks : \E o \in Tasks \ {t} :
        /\ InTransport(t)
        /\ sending = 1
        /\ pc[o] = "poll_cs1"
        /\ queue.count = 2
        /\ HeadIsCopyOf(t)
        /\ Len(admitted) = 2

(***************************************************************************)
(* A long wait: two messages were enqueued at clock 0 and the clock        *)
(* advances in steps of 2^30 ms while uplink_poll is called.               *)
(***************************************************************************)
\* No budget, a queue of two slots, delays of 2 and 4 ms without jitter.
CfgLongWait == Cfg(2, <<0, 2>>, <<0, 4>>, 0, 0)

LongWaitArgs == {CfgBounded, CfgLongWait}

\* The message uplink_enqueue_json stores at clock 0 under this id.
LongWaitMsg(id) ==
    [message_id |-> id, created_ms |-> <<0, 0>>, type |-> "LIGHT_ADC",
     payload_json |-> "{\"adc\":1234}", attempt |-> 0,
     next_retry_ms |-> <<0, 0>>]

InitLongWait ==
    /\ \E c \in LongWaitArgs :
         /\ uplink_config_validate(c) = UPLINK_OK
         /\ cfg = c
         /\ caller_cfg = c
         /\ queue = uplink_queue_push(
                        uplink_queue_push(uplink_queue_init(c.queue_len),
                                          LongWaitMsg(<<0, 1>>)).q,
                        LongWaitMsg(<<0, 2>>)).q
    /\ inited = 1
    /\ sending = 0
    /\ mutex = 0
    /\ next_message_id = <<0, 3>>
    /\ now = <<0, 0>>
    /\ InitTasks
    /\ admitted = << <<0, 1>>, <<0, 2>> >>
    /\ calls = <<0, 0>>
    /\ done = {}
    /\ fail = NoFail

\* The clock advances by 2^30 ms (about twelve days); the elapsed time of
\* the history stops counting at INT32_MAX.
TickFar ==
    /\ ticks < MaxTicks
    /\ ticks' = ticks + 1
    /\ now' = U32Add(now, <<16384, 0>>)
    /\ fail' = IF fail = NoFail THEN fail
               ELSE [fail EXCEPT !.elapsed =
                        IF @ >= INT32_MAX - 1073741824 THEN INT32_MAX
                        ELSE @ + 1073741824]
    /\ UNCHANGED <<caller_cfg, ctx, pc, loc, admitted, calls, done>>

NextLongWait ==
    \/ \E t \in Tasks : PollBegin(t)
    \/ \E t \in Tasks : PollLock(t)
    \/ \E t \in Tasks : PollCs1(t)
    \/ \E t \in Tasks : PollBuild(t)
    \/ \E t \in Tasks : PollPost(t)
    \/ \E t \in Tasks : PollCs2(t)
    \/ TickFar

SpecLongWait == InitLongWait /\ [][NextLongWait]_vars

(***************************************************************************)
(* C37                                                                     *)
(***************************************************************************)
\* C37: eligibility is stable.  A queued message that was never attempted
\* has been eligible since it was enqueued: at every later clock value the
\* due test finds it due, and a Poll that finds it at the head, with no send
\* in flight, starts its first attempt instead of returning.
C37_EligibilityStable ==
    /\ [](\A i \in 1..queue.count :
            QueueMsgsOf(queue)[i].attempt = 0 =>
                uplink_time_is_due(now, QueueMsgsOf(queue)[i].next_retry_ms)
                    = 1)
    /\ [][\A t \in Tasks :
            (/\ pc[t] = "poll_cs1"
             /\ pc'[t] # "poll_cs1"
             /\ sending = 0
             /\ queue.count > 0
             /\ HeadOf(queue).attempt = 0) => pc'[t] = "poll_build"
         ]_vars

(***************************************************************************)
(* C38                                                                     *)
(***************************************************************************)
\* This step is the last one of an uplink_enqueue_json call of task t that
\* sets a return value other than UPLINK_OK.
EnqFailsStep(t) ==
    /\ pc[t] \in {"idle", "enq_cs"}
    /\ pc'[t] = "enq_ret"
    /\ loc'[t].r # UPLINK_OK

\* C38: ids of admitted messages are consecutive.  The k-th message admitted
\* after uplink_init carries id k, the counter is one above the number of
\* admitted messages, and a call of uplink_enqueue_json that returns an
\* error leaves next_message_id unchanged.
C38_ConsecutiveIds ==
    /\ [](\A k \in DOMAIN admitted : admitted[k] = U32Of(k))
    /\ [](next_message_id = U32Of(Len(admitted) + 1))
    /\ [][\A t \in Tasks :
            EnqFailsStep(t) => next_message_id' = next_message_id
         ]_vars

(***************************************************************************)
(* Task_Light, the reference producer (task_light), beside the task that   *)
(* calls uplink_poll.  Task 1 is Task_Light, the other task polls.         *)
(***************************************************************************)
\* uplink_codec_json_build_light_adc_payload: {"adc":<value>} in a buffer of
\* out_payload_len characters.
uplink_codec_json_build_light_adc_payload(out_payload_len, adc_value) ==
    LET text == "{\"adc\":" \o DecStr(adc_value) \o "}"
    IN  IF out_payload_len = 0
        THEN [r |-> UPLINK_ERR_INVALID_ARG, out |-> ""]
        ELSE IF Len(text) >= out_payload_len
        THEN [r |-> UPLINK_ERR_BUFFER_TOO_SMALL,
              out |-> SubSeq(text, 1, out_payload_len - 1)]
        ELSE [r |-> UPLINK_OK, out |-> text]

\* A producer that enqueues whatever the depth is.
light_may_enqueue_always(depth) == TRUE

\* The admission test of Task_Light on the depth it read.
light_may_enqueue(depth) == depth < UPLINK_QUEUE_MAX_LEN - 1

\* A queue of UPLINK_QUEUE_MAX_LEN slots, delays of 1 and 2 ms, a budget of
\* two attempts, no jitter.
CfgLight == Cfg(UPLINK_QUEUE_MAX_LEN, <<0, 1>>, <<0, 2>>, 2, 0)

\* ADC values Task_Light reads (12 bits).
LightAdcValues == {4095}

\* Messages Task_Light had enqueued at clock 0 when the behaviour starts.
LightBacklogs == {6}

\* Task_Light stops when the next id is this one.
LightMaxId == U32Of(6 + MaxEnq + 1)

\* The message uplink_enqueue_light_adc stores at clock 0 under id k.
LightMsg(k) ==
    [message_id |-> U32Of(k), created_ms |-> <<0, 0>>, type |-> "LIGHT_ADC",
     payload_json |-> uplink_codec_json_build_light_adc_payload(
                          64, U32Of(1234)).out,
     attempt |-> 0, next_retry_ms |-> <<0, 0>>]

\* The queue after the messages 1..k were pushed.
RECURSIVE LightQueue(_)
LightQueue(k) ==
    IF k = 0 THEN uplink_queue_init(CfgLight.queue_len)
    ELSE uplink_queue_push(LightQueue(k - 1), LightMsg(k)).q

InitLight ==
    /\ uplink_config_validate(CfgLight) = UPLINK_OK
    /\ inited = 1
    /\ sending = 0
    /\ mutex = 0
    /\ cfg = CfgLight
    /\ caller_cfg = CfgLight
    /\ \E k \in LightBacklogs :
         /\ queue = LightQueue(k)
         /\ next_message_id = U32Of(k + 1)
         /\ admitted = [i \in 1..k |-> U32Of(i)]
         /\ calls = [i \in 1..k |-> 0]
    /\ now = <<0, 0>>
    /\ InitTasks
    /\ done = {}
    /\ fail = NoFail

\* Task_Light calls uplink_get_queue_depth.
LightDepth(t) ==
    /\ U32Lt(next_message_id, LightMaxId)
    /\ DepthLock(t)

\* uplink_get_queue_depth has returned: Task_Light goes on to enqueue, or
\* skips this round.
LightCheck(t) ==
    /\ pc[t] = "depth_ret"
    /\ IF light_may_enqueue(loc[t].r)
       THEN /\ pc' = [pc EXCEPT ![t] = "light_enq"]
            /\ UNCHANGED loc
       ELSE /\ pc' = [pc EXCEPT ![t] = "idle"]
            /\ loc' = [loc EXCEPT ![t] = NoLocals]
    /\ UNCHANGED <<caller_cfg, ctx, now, hist, ticks>>

\* uplink_enqueue_light_adc: build the payload, then enter
\* uplink_enqueue_json with the type LIGHT_ADC.
LightEnqBegin(t) ==
    \E adc \in LightAdcValues :
        LET b == uplink_codec_json_build_light_adc_payload(64, U32Of(adc))
        IN  IF b.r # UPLINK_OK
            THEN /\ pc[t] = "light_enq"
                 /\ loc' = [loc EXCEPT ![t].r = b.r]
                 /\ pc' = [pc EXCEPT ![t] = "enq_ret"]
                 /\ UNCHANGED <<caller_cfg, ctx, now, hist, ticks>>
            ELSE EnqBeginIn(t, "light_enq",
                            {[type |-> "LIGHT_ADC", payload_json |-> b.out]},
                            LightMaxId)

\* Clock advances made in one behaviour of Task_Light and the polling task.
LightMaxTicks == 1

\* The clock advances beside the two tasks.
LightTick(d) ==
    /\ ticks < LightMaxTicks
    /\ Tick(d)

NextLight ==
    \/ \E t \in Producers : LightDepth(t)
    \/ \E t \in Producers : DepthCs(t)
    \/ \E t \in Producers : LightCheck(t)
    \/ \E t \in Producers : LightEnqBegin(t)
    \/ \E t \in Producers : EnqLock(t)
    \/ \E t \in Producers : EnqCs(t)
    \/ \E t \in Producers : EnqReturn(t)
    \/ \E t \in Tasks \ Producers : PollBegin(t)
    \/ \E t \in Tasks \ Producers : PollLock(t)
    \/ \E t \in Tasks \ Producers : PollCs1(t)
    \/ \E t \in Tasks \ Producers : PollBuild(t)
    \/ \E t \in Tasks \ Producers : PollPost(t)
    \/ \E t \in Tasks \ Producers : PollCs2(t)
    \/ \E d \in TickSteps : LightTick(d)

SpecLight == InitLight /\ [][NextLight]_vars

(***************************************************************************)
(* C39                                                                     *)
(***************************************************************************)
\* C39: admission control of the reference producer.  With Task_Light the
\* only producer on a queue of UPLINK_QUEUE_MAX_LEN slots, in every
\* interleaving with the polling task the queue never holds more than
\* UPLINK_QUEUE_MAX_LEN - 1 messages, Task_Light enters
\* uplink_enqueue_light_adc only after reading a depth below
\* UPLINK_QUEUE_MAX_LEN - 1, and every enqueue it makes returns UPLINK_OK,
\* never QueueFull.
C39_ProducerAdmission ==
    /\ cfg.queue_len = UPLINK_QUEUE_MAX_LEN
    /\ uplink_queue_size(queue) <= UPLINK_QUEUE_MAX_LEN - 1
    /\ \A t \in Producers :
         /\ pc[t] \in {"light_enq", "enq_lock", "enq_cs"} =>
                uplink_queue_size(queue) < UPLINK_QUEUE_MAX_LEN - 1
         /\ pc[t] = "enq_ret" =>
                /\ loc[t].r # UPLINK_ERR_QUEUE_FULL
                /\ loc[t].r = UPLINK_OK

\* Task_Light has enqueued, then read a depth of UPLINK_QUEUE_MAX_LEN - 1
\* and is about to skip its round.
C39_Witness ==
    \E t \in Producers :
        /\ pc[t] = "depth_ret"
        /\ loc[t].r = UPLINK_QUEUE_MAX_LEN - 1
        /\ ~light_may_enqueue(loc[t].r)
        /\ uplink_queue_size(queue) = UPLINK_QUEUE_MAX_LEN - 1
        /\ HeadOf(queue).attempt > 0
        /\ \E i \in 1..queue.count :
             QueueMsgsOf(queue)[i].created_ms # <<0, 0>>

====
